---- MODULE Spec2Model ----
(***************************************************************************)
(* A model of the change-recording core of libpijul:                       *)
(*   - src/libpijul/src/record.rs   (Builder, Recorded, the tree walker,   *)
(*     add_file, record_existing_file, the move/rename algebra and the     *)
(*     recursive deleter);                                                 *)
(*   - src/libpijul/src/diff/mod.rs (the Line model and the diff driver).  *)
(*                                                                         *)
(* The repository (tree table, inodes table, graph, change store) and the  *)
(* working copy are inputs: Init draws them from a bounded family of small *)
(* repositories and they stay fixed during a recording session.            *)
(***************************************************************************)
EXTENDS Integers, Sequences, FiniteSets, TLC

VARIABLES
    world,              \* the repository and the working copy (inputs)
    opts,               \* Builder.force_rediff / Builder.ignore_missing
    rec,                \* Builder.rec: the per-file records, in creation order
    recorded_inodes,    \* Builder.recorded_inodes: Inode -> Position
    deleted_vertices,   \* Builder.deleted_vertices
    contents,           \* Builder.contents, shared by all records
    stack,              \* the walker's stack inside Builder::record
    work,               \* Tasks.t, the work queue
    stop,               \* Tasks.stop
    pc,                 \* where the session is
    ret,                \* what the last call of Builder::record returned
    result,             \* what Builder::finish returned
    hist,               \* history of the current session (observation only)
    lineSt,             \* the state of the line-model specification
    workers             \* the worker threads of the current call of record

vars == <<world, opts, rec, recorded_inodes, deleted_vertices, contents,
          stack, work, stop, pc, ret, result, hist, lineSt, workers>>

builderVars == <<world, opts, rec, recorded_inodes, deleted_vertices, contents,
                 stack, work, stop, pc, ret, result, hist, workers>>

(***************************************************************************)
(* Bounds of the model.                                                    *)
(***************************************************************************)
MaxCalls == 2       \* calls of Builder::record in one session
MaxBuf == 3         \* length of a buffer handed to make_old_lines / make_new_lines
MaxWorkers == 2     \* worker threads spawned by one call of Builder::record

(***************************************************************************)
(* Generic helpers.                                                        *)
(***************************************************************************)
Last(s) == s[Len(s)]

Front(s) == SubSeq(s, 1, Len(s) - 1)

Range(s) == {s[i] : i \in 1..Len(s)}

RECURSIVE SeqSum(_)
SeqSum(s) == IF s = <<>> THEN 0 ELSE Head(s) + SeqSum(Tail(s))

Min2(a, b) == IF a < b THEN a ELSE b

Max2(a, b) == IF a > b THEN a ELSE b

(***************************************************************************)
(* Edge flags, change ids, positions and vertices (pristine).              *)
(***************************************************************************)
BLOCK == "BLOCK"
PSEUDO == "PSEUDO"
FOLDER == "FOLDER"
PARENT == "PARENT"
DELETED == "DELETED"

AllFlags == {BLOCK, PSEUDO, FOLDER, PARENT, DELETED}

\* The numeric value of a flag set, which orders the edges of a vertex.
FlagBits(f) ==
    (IF BLOCK \in f THEN 1 ELSE 0) + (IF PSEUDO \in f THEN 4 ELSE 0)
    + (IF FOLDER \in f THEN 16 ELSE 0) + (IF PARENT \in f THEN 32 ELSE 0)
    + (IF DELETED \in f THEN 128 ELSE 0)

\* EdgeFlags::is_alive_parent: PARENT set, DELETED not set.
is_alive_parent(f) == PARENT \in f /\ DELETED \notin f

\* Option<ChangeId>::None is the change being recorded.
NoChange == -1

RootChange == 0

Pos(c, p) == [change |-> c, pos |-> p]

Vtx(c, s, e) == [change |-> c, start |-> s, end |-> e]

PositionROOT == Pos(RootChange, 0)

\* Option<Position>::None and Option<Inode>::None
NoPos == Pos(-2, -2)

NoInode == -1

InodeROOT == 0

start_pos(v) == Pos(v.change, v.start)

end_pos(v) == Pos(v.change, v.end)

inode_vertex(p) == Vtx(p.change, p.pos, p.pos)

(***************************************************************************)
(* The repository and the working copy.                                    *)
(*                                                                         *)
(* Three tracked inodes: 1 is the directory "a" under the root, 2 is the   *)
(* regular file "b" under the root, 3 is the regular file "x" under "a".   *)
(* The graph of inode i was introduced by change i, laid out the way       *)
(* add_file lays a FileAdd out.                                            *)
(***************************************************************************)
Inodes == {1, 2, 3}

Iv(i) == Vtx(i, 1, 1)

Nm(i) == Vtx(i, 10, 13)

\* the k-th line of file i: two bytes, the first line right after the inode
Cv(i, k) == Vtx(i, 2 * k, 2 * k + 2)

RootVertex == Vtx(RootChange, 0, 0)

\* The change that gave the file "b" a second name, and that name vertex.
SecondName == 4

Nm2 == Vtx(SecondName, 10, 13)

Meta(isdir, perm) == [dir |-> isdir, perm |-> perm]

FileMeta(m, b, e) == [metadata |-> m, basename |-> b, encoding |-> e]

Edge(v, f, d, by) == [v |-> v, flag |-> f, dest |-> d, intro |-> by]

\* The two halves of the edge u -> w with flags f: the forward half stored at
\* u, and its PARENT mirror stored at w.
EdgePair(u, w, f, by) ==
    { Edge(u, f, start_pos(w), by), Edge(w, f \cup {PARENT}, end_pos(u), by) }

\* The folder edges of inode i under the inode vertex pv: pv -> name -> inode.
\* dn marks the directory -> name edge DELETED, di the name -> inode edge.
FolderEdges(i, pv, dn, di) ==
    EdgePair(pv, Nm(i), {FOLDER, BLOCK} \cup (IF dn THEN {DELETED} ELSE {}), i)
    \cup EdgePair(Nm(i), Iv(i), {FOLDER, BLOCK} \cup (IF di THEN {DELETED} ELSE {}), i)

\* The content of file i: a chain of n one-line vertices below the inode vertex.
ContentEdges(i, n, del) ==
    UNION { EdgePair(IF k = 1 THEN Iv(i) ELSE Cv(i, k - 1), Cv(i, k),
                     {BLOCK} \cup (IF del THEN {DELETED} ELSE {}), i)
            : k \in 1..n }

TreeParent(i) == IF i = 3 THEN 1 ELSE InodeROOT

TreeName(i) == CASE i = 1 -> "a" [] i = 2 -> "b" [] OTHER -> "x"

TreePathOf(i) == IF i = 3 THEN <<"a", "x">> ELSE <<TreeName(i)>>

AllPaths == {TreePathOf(i) : i \in Inodes} \cup {<<"x">>}

\* The basenames in the order of the tree table.
NameRank(n) == CASE n = "" -> 0 [] n = "a" -> 1 [] n = "b" -> 2
                 [] n = "old" -> 3 [] n = "q" -> 4 [] OTHER -> 5

\* The bytes a file holds in the graph ("1\n2\n"), and in the working copy
\* after an edit ("1\n3\n"); 10 is the newline.
OldBytes == <<1, 10, 2, 10>>

NewBytes == <<1, 10, 3, 10>>

\* The text of the content vertices, as the change store gives it.
TextOf ==
    [v \in {Cv(2, 1), Cv(2, 2), Cv(3, 1)} |->
        IF v = Cv(2, 2) THEN <<2, 10>> ELSE <<1, 10>>]

LastModified == 2

\* A repository description: for each inode how it stands in the graph (g),
\* in the working copy (w), and the details of file "b".
WorldParams ==
    [ gA : {"new", "live"}, wA : BOOLEAN,
      gB : {"new", "live", "dead"}, wB : {"same", "edit", "gone"},
      nB : {"b", "old"}, pB : {0, 1}, mB : {-1, 1, 3},
      gX : {"new", "live"}, wX : BOOLEAN,
      bad : BOOLEAN, undec : BOOLEAN, psB : BOOLEAN,
      mvX : BOOLEAN, noMt : BOOLEAN, eX : BOOLEAN,
      n2 : {"none", "b", "old"}, d2 : {"live", "moved", "dead"},
      mvO : BOOLEAN, cyc : BOOLEAN ]

WellFormed(p) ==
    /\ (p.gX = "live" /\ ~p.mvX) => p.gA = "live"
    /\ p.mvX => (p.gX = "live" /\ p.wX)
    /\ p.noMt => (p.gB = "live" /\ p.wB # "gone" /\ p.nB = "b" /\ p.pB = 0
                   /\ p.mB = 3 /\ ~p.bad /\ ~p.psB)
    /\ p.mB = -1 => (p.gB = "live" /\ p.nB = "b" /\ p.pB = 0 /\ ~p.bad /\ ~p.psB)
    /\ p.eX => (p.wX /\ p.gB = "live" /\ p.wB = "edit" /\ p.nB = "b" /\ p.pB = 0
                 /\ ~p.bad /\ ~p.noMt)
    /\ p.n2 = "none" => p.d2 = "live"
    /\ p.n2 # "none" => (p.gB # "new" /\ p.wB # "edit" /\ p.pB = 0 /\ p.mB = 3
                         /\ ~p.bad /\ ~p.psB /\ ~p.noMt /\ p.wX)
    /\ (p.wX /\ ~p.mvO) => p.wA
    /\ p.cyc => (p.gB = "live" /\ p.wB = "gone" /\ p.nB = "b" /\ p.pB = 0 /\ ~p.bad
                  /\ ~p.psB /\ p.n2 = "none")
    /\ p.mvO => (p.gA = "live" /\ p.gX = "live" /\ p.wX /\ ~p.mvX /\ ~p.eX)
    /\ p.gB = "new" => (p.nB = "b" /\ p.pB = 0 /\ p.wB # "edit" /\ p.mB = 3 /\ ~p.bad)
    /\ p.gB # "new" => ~p.undec
    /\ p.gB = "dead" => (p.wB = "same" /\ p.nB = "b" /\ p.pB = 0 /\ p.mB = 3 /\ ~p.bad)
    /\ p.wB = "gone" => (p.mB = 3 /\ ~p.undec)
    /\ p.psB => (p.gB # "new" /\ p.wB # "edit" /\ p.pB = 0 /\ p.mB = 3 /\ ~p.bad)
    \* the details of "b" vary in a fixed surrounding
    /\ (p.nB # "b" \/ p.pB # 0 \/ p.mB # 3 \/ p.bad \/ p.undec \/ p.wB = "edit"
          \/ p.gB = "dead" \/ p.psB \/ p.noMt \/ p.n2 # "none" \/ p.cyc)
         => (p.gA = "live" /\ p.wA /\ p.gX = "live" /\ ~p.mvX /\ ~p.mvO)

GraphOf(p) ==
    (IF p.gA = "live" THEN FolderEdges(1, RootVertex, FALSE, FALSE) ELSE {})
    \cup (IF p.gB = "live"
            THEN FolderEdges(2, RootVertex, FALSE, p.psB)
                 \cup ContentEdges(2, 2, FALSE)
            ELSE IF p.gB = "dead"
            THEN FolderEdges(2, RootVertex, TRUE, TRUE)
                 \cup ContentEdges(2, 2, TRUE)
            ELSE {})
    \* a cycle in the content of "b": the second line is also before the first
    \cup (IF p.cyc THEN EdgePair(Cv(2, 2), Cv(2, 1), {BLOCK}, 2) ELSE {})
    \* a zombie "b": beside the DELETED name -> inode edge, a PSEUDO one
    \cup (IF p.psB THEN EdgePair(Nm(2), Iv(2), {FOLDER, PSEUDO}, 2) ELSE {})
    \* a second name of "b" under the root: alive, left behind by a move (only
    \* its directory -> name edge is DELETED), or deleted
    \cup (IF p.n2 # "none"
            THEN EdgePair(RootVertex, Nm2,
                          {FOLDER, BLOCK} \cup (IF p.d2 # "live" THEN {DELETED} ELSE {}),
                          SecondName)
                 \cup EdgePair(Nm2, Iv(2),
                          {FOLDER, BLOCK} \cup (IF p.d2 = "dead" THEN {DELETED} ELSE {}),
                          SecondName)
            ELSE {})
    \cup (IF p.gX = "live"
            \* "x" recorded under the root and since moved into "a"
            THEN FolderEdges(3, IF p.mvX THEN RootVertex ELSE Iv(1), FALSE, FALSE) \cup ContentEdges(3, 1, FALSE)
            ELSE {})

InGraph(p, i) ==
    CASE i = 1 -> p.gA # "new" [] i = 2 -> p.gB # "new" [] OTHER -> p.gX # "new"

WcOf(p) ==
    [ path \in AllPaths |->
        CASE path = <<"a">> ->
               [exists |-> p.wA, meta |-> Meta(TRUE, 0), content |-> <<>>,
                mtime |-> 3, mtime_ok |-> TRUE, decode_ok |-> TRUE]
          [] path = <<"b">> ->
               [exists |-> p.wB # "gone", meta |-> Meta(FALSE, 0),
                content |-> IF p.wB = "edit" THEN NewBytes ELSE OldBytes,
                mtime |-> p.mB, mtime_ok |-> ~p.noMt, decode_ok |-> ~p.undec]
          [] OTHER ->
               \* "x", when edited, holds "3\n" since the time 2; it is at
               \* the path the tree table gives it
               [exists |-> p.wX /\ (p.mvO <=> path = <<"x">>), meta |-> Meta(FALSE, 0),
                content |-> IF p.eX THEN <<3, 10>> ELSE <<1, 10>>,
                mtime |-> IF p.eX THEN 2 ELSE 3, mtime_ok |-> TRUE,
                decode_ok |-> TRUE] ]

MakeWorld(p) ==
    \* mvO: "x" was recorded under "a" and has since been moved to the root
    [ tree |-> {[parent |-> IF i = 3 /\ p.mvO THEN InodeROOT ELSE TreeParent(i),
                 basename |-> TreeName(i), inode |-> i]
                  : i \in Inodes},
      inodes |-> [i \in Inodes |-> IF InGraph(p, i) THEN start_pos(Iv(i)) ELSE NoPos],
      graph |-> GraphOf(p),
      meta |-> [i \in Inodes \cup {SecondName} |->
                  FileMeta(Meta(i = 1, IF i = 2 THEN p.pB ELSE 0),
                           IF i = 2 THEN p.nB
                           ELSE IF i = SecondName THEN p.n2 ELSE TreeName(i),
                           IF i = 1 THEN "none" ELSE "utf8")],
      text |-> TextOf,
      badmeta |-> IF p.bad THEN {Nm(2)} ELSE {},
      wc |-> WcOf(p),
      last_modified |-> LastModified ]

Worlds == {MakeWorld(p) : p \in {q \in WorldParams : WellFormed(q)}}

(***************************************************************************)
(* The transaction, the change store and the working copy (external        *)
(* interfaces, section 6 of the specification).                            *)
(***************************************************************************)
EdgeKey(e) == <<FlagBits(e.flag), e.dest.change, e.dest.pos, e.intro>>

RECURSIVE LexLess(_, _)
LexLess(a, b) ==
    IF a = <<>> THEN FALSE
    ELSE IF Head(a) # Head(b) THEN Head(a) < Head(b)
    ELSE LexLess(Tail(a), Tail(b))

RECURSIVE SortEdges(_)
SortEdges(S) ==
    IF S = {} THEN <<>>
    ELSE LET m == CHOOSE e \in S : \A f \in S \ {e} : LexLess(EdgeKey(e), EdgeKey(f))
         IN <<m>> \o SortEdges(S \ {m})

\* iter_adjacent(graph, vertex, required, mask): the edges of the vertex whose
\* flags contain `required` and are contained in `mask`, in key order.
iter_adjacent(v, minf, maxf) ==
    SortEdges({e \in world.graph : e.v = v /\ minf \subseteq e.flag /\ e.flag \subseteq maxf})

Vertices == {e.v : e \in world.graph} \cup {RootVertex}

find_block(p) ==
    CHOOSE v \in Vertices :
        /\ v.change = p.change
        /\ (v.start = p.pos /\ v.end = p.pos) \/ (v.start <= p.pos /\ p.pos < v.end)

find_block_end(p) ==
    CHOOSE v \in Vertices :
        /\ v.change = p.change
        /\ (v.start = p.pos /\ v.end = p.pos) \/ (v.start < p.pos /\ p.pos <= v.end)

txn_get_inodes(i) == IF i \in DOMAIN world.inodes THEN world.inodes[i] ELSE NoPos

get_revinodes(p) ==
    IF \E i \in DOMAIN world.inodes : world.inodes[i] = p
    THEN CHOOSE i \in DOMAIN world.inodes : world.inodes[i] = p
    ELSE NoInode

\* crate::fs::inode_filename: the path of an inode in the tree table.
RECURSIVE inode_filename(_)
inode_filename(i) ==
    IF i = InodeROOT THEN [ok |-> TRUE, path |-> <<>>]
    ELSE IF \E t \in world.tree : t.inode = i
    THEN LET t == CHOOSE t \in world.tree : t.inode = i
             up == inode_filename(t.parent)
         IN [ok |-> up.ok, path |-> Append(up.path, t.basename)]
    ELSE [ok |-> FALSE, path |-> <<>>]

\* A lookup that resolves no position to a path.
tree_path_never(p) == [ok |-> FALSE, path |-> <<>>]

\* crate::fs::tree_path: the path of the inode of a graph position, if any.
tree_path(p) ==
    IF get_revinodes(p) = NoInode THEN [ok |-> FALSE, path |-> <<>>]
    ELSE inode_filename(get_revinodes(p))

\* ChangeStore::get_file_meta of a name vertex: fails for unreadable vertices.
get_file_meta(v) ==
    IF v \in world.badmeta \/ v.change \notin DOMAIN world.meta
    THEN [ok |-> FALSE, fm |-> FileMeta(Meta(FALSE, 0), "", "none")]
    ELSE [ok |-> TRUE, fm |-> world.meta[v.change]]

\* WorkingCopy::file_metadata
file_metadata(path) ==
    IF path \in DOMAIN world.wc /\ world.wc[path].exists
    THEN [ok |-> TRUE, meta |-> world.wc[path].meta]
    ELSE [ok |-> FALSE, meta |-> Meta(FALSE, 0)]

Zero == 0

\* A decoder that finds every file empty.
decode_file_empty(path) == [ok |-> TRUE, bytes |-> <<>>, encoding |-> "utf8"]

\* WorkingCopy::decode_file: the bytes appended to the buffer and the encoding.
decode_file(path) ==
    IF path \in DOMAIN world.wc /\ world.wc[path].exists /\ world.wc[path].decode_ok
    THEN [ok |-> TRUE, bytes |-> world.wc[path].content, encoding |-> "utf8"]
    ELSE [ok |-> FALSE, bytes |-> <<>>, encoding |-> "none"]

\* WorkingCopy::modified_time
modified_time(path) ==
    IF path \in DOMAIN world.wc /\ world.wc[path].exists /\ world.wc[path].mtime_ok
    THEN [ok |-> TRUE, t |-> world.wc[path].mtime]
    ELSE [ok |-> FALSE, t |-> 0]

\* FileMetadata::write: the serialized name of a directory entry.
FileMetadataWrite(fm) ==
    << 100 + (IF fm.metadata.dir THEN 2 ELSE 0) + fm.metadata.perm,
       200 + NameRank(fm.basename),
       300 + (IF fm.encoding = "utf8" THEN 1 ELSE 0) >>

(***************************************************************************)
(* The output vocabulary (change.rs): atoms and hunks.                     *)
(***************************************************************************)
NoAtom == [t |-> "None"]

NewVertex(up, down, s, e, f, ino) ==
    [t |-> "NewVertex", up_context |-> up, down_context |-> down,
     start |-> s, end |-> e, flag |-> f, inode |-> ino]

EdgeMap(edges, ino) == [t |-> "EdgeMap", edges |-> edges, inode |-> ino]

NewEdge(prev, f, from, to, by) ==
    [previous |-> prev, flag |-> f, from |-> from, to |-> to, introduced_by |-> by]

\* HashMap::insert
MapInsert(m, k, v) == [x \in (DOMAIN m) \cup {k} |-> IF x = k THEN v ELSE m[x]]

EmptyMap == <<>>

UnixEpoch == 0

(***************************************************************************)
(* Builder and Recorded (record.rs).                                       *)
(***************************************************************************)
\* Builder::recorded_: a fresh, empty record.
recorded_ ==
    [actions |-> <<>>, updatables |-> EmptyMap, largest_file |-> 0,
     has_binary_files |-> FALSE, oldest_change |-> UnixEpoch]

\* Builder::recorded: push a fresh record; it is the last of Builder.rec.
recorded(B) == [B EXCEPT !.rec = Append(B.rec, recorded_)]

\* get_inodes: the position of an inode, unless the first parent edge of its
\* inode vertex is not alive ("ignore inodes that are in another channel").
get_inodes(i) ==
    LET vertex == txn_get_inodes(i) IN
    IF vertex = NoPos THEN NoPos
    ELSE LET es == iter_adjacent(inode_vertex(vertex), {PARENT}, AllFlags)
         IN IF es # <<>> /\ is_alive_parent(es[1].flag) THEN vertex ELSE NoPos

\* Recorded::add_file, on record r of the builder state B.
add_file(B, r, item) ==
    LET m == file_metadata(item.full_path) IN
    IF ~m.ok THEN [b |-> B, res |-> "err", pos |-> NoPos]
    ELSE
    LET meta == m.meta
        c1 == Append(B.contents, Zero)
        inode_pos == Len(c1)
        c2 == Append(c1, Zero)
        isfile == ~meta.dir
        start == Len(c2)
        dec == decode_file(item.full_path)
    IN
    IF isfile /\ ~dec.ok
    THEN [b |-> [B EXCEPT !.contents = c2], res |-> "err", pos |-> NoPos]
    ELSE
    LET end == IF isfile THEN start + Len(dec.bytes) ELSE start
        c3 == IF isfile THEN Append(c2 \o dec.bytes, Zero) ELSE c2
        encoding == IF isfile THEN dec.encoding ELSE "none"
        contents_ ==
            IF isfile /\ end > start
            THEN NewVertex(<<Pos(NoChange, inode_pos)>>, <<>>, start, end, {BLOCK},
                           Pos(NoChange, inode_pos))
            ELSE NoAtom
        name_start == Len(c3)
        c4 == c3 \o FileMetadataWrite(FileMeta(meta, item.basename, encoding))
        name_end == Len(c4)
        c5 == Append(c4, Zero)
        hunk == [t |-> "FileAdd",
                 add_name |-> NewVertex(<<item.v_papa>>, <<>>, name_start, name_end,
                                        {FOLDER, BLOCK}, item.v_papa),
                 add_inode |-> NewVertex(<<Pos(NoChange, name_end)>>, <<>>, inode_pos,
                                         inode_pos, {FOLDER, BLOCK}, item.v_papa),
                 contents |-> contents_,
                 path |-> item.full_path,
                 encoding |-> encoding]
        old == B.rec[r]
        actions == Append(old.actions, hunk)
        new == [old EXCEPT
                  !.actions = actions,
                  !.updatables = MapInsert(old.updatables, Len(actions),
                                     [t |-> "Add", inode |-> item.inode, pos |-> inode_pos]),
                  !.has_binary_files = old.has_binary_files \/ (isfile /\ encoding = "none"),
                  !.largest_file = IF isfile THEN Max2(old.largest_file, end - start)
                                   ELSE old.largest_file]
    IN [b |-> [B EXCEPT !.contents = c5, !.rec[r] = new],
        res |-> IF meta.dir THEN "some" ELSE "none",
        pos |-> IF meta.dir THEN Pos(NoChange, inode_pos) ELSE NoPos]

(***************************************************************************)
(* The recursive deleter (record.rs, lines 1208-1436).                     *)
(* A builder state B carries err: "ok", or the error (or panic) that ended *)
(* the operation.                                                          *)
(***************************************************************************)
Failed(B, e) == [B EXCEPT !.err = e]

\* The grandparent loop of delete_inode_vertex (lines 1340-1362).
RECURSIVE div_grandparents(_, _, _)
div_grandparents(gps, parent_dest, edges) ==
    IF gps = <<>> THEN edges
    ELSE LET gp == Head(gps) IN
         IF PARENT \notin gp.flag \/ PSEUDO \in gp.flag
         THEN div_grandparents(Tail(gps), parent_dest, edges)
         ELSE div_grandparents(Tail(gps), parent_dest,
                  Append(edges, NewEdge(gp.flag \ {PARENT}, {FOLDER, BLOCK, DELETED},
                                        gp.dest, parent_dest, gp.intro)))

\* The parent loop of delete_inode_vertex (lines 1316-1372).
RECURSIVE div_parents(_, _, _)
div_parents(ps, vertex, acc) ==
    IF ps = <<>> \/ acc.err # "ok" THEN acc
    ELSE LET parent == Head(ps) IN
         IF PARENT \notin parent.flag THEN div_parents(Tail(ps), vertex, acc)
         ELSE IF FOLDER \notin parent.flag THEN [acc EXCEPT !.err = "panic"]
         ELSE
         LET parent_dest == find_block_end(parent.dest)
             fm == get_file_meta(parent_dest)
         IN IF ~acc.has_enc /\ ~fm.ok THEN [acc EXCEPT !.err = "Changestore"]
            ELSE
            LET e1 == div_grandparents(
                          iter_adjacent(parent_dest, {FOLDER, PARENT}, AllFlags),
                          parent_dest, acc.edges)
                e2 == IF PSEUDO \notin parent.flag
                      THEN Append(e1, NewEdge(parent.flag \ {PARENT},
                                              {FOLDER, BLOCK, DELETED},
                                              parent.dest, vertex, parent.intro))
                      ELSE e1
            IN div_parents(Tail(ps), vertex,
                   [acc EXCEPT !.edges = e2,
                               !.has_enc = TRUE,
                               !.enc = IF acc.has_enc THEN acc.enc ELSE fm.fm.encoding])

\* A deletion of the inode vertex that pushes no FileDel.
delete_inode_vertex_silent(B, r, vertex, inode, path) == B

\* Recorded::delete_inode_vertex
delete_inode_vertex(B, r, vertex, inode, path) ==
    LET acc == div_parents(iter_adjacent(vertex, {FOLDER, PARENT}, AllFlags), vertex,
                           [edges |-> <<>>, has_enc |-> FALSE, enc |-> "none", err |-> "ok"])
    IN IF acc.err # "ok" THEN Failed(B, acc.err)
       ELSE IF acc.edges # <<>>
       THEN [B EXCEPT !.rec[r].actions =
                Append(@, [t |-> "FileDel",
                           del |-> EdgeMap(acc.edges, inode),
                           contents |-> NoAtom,
                           path |-> path,
                           encoding |-> acc.enc])]
       ELSE B

\* A parent loop that marks no edge.
dfe_parents_none(ps, to, acc) == acc

\* The parent loop of delete_file_edge (lines 1406-1426).
RECURSIVE dfe_parents(_, _, _)
dfe_parents(ps, to, acc) ==
    IF ps = <<>> \/ acc.err # "ok" THEN acc
    ELSE LET parent == Head(ps) IN
         IF PSEUDO \in parent.flag THEN dfe_parents(Tail(ps), to, acc)
         ELSE IF PARENT \notin parent.flag \/ FOLDER \in parent.flag
         THEN [acc EXCEPT !.err = "panic"]
         ELSE dfe_parents(Tail(ps), to,
                  [acc EXCEPT !.edges =
                      Append(@, NewEdge(parent.flag \ {PARENT},
                                        (parent.flag \ {PARENT}) \cup {DELETED},
                                        parent.dest, to, parent.intro))])

\* A delete_file_edge that writes to the first hunk of the record.
delete_file_edge_first(B, r, to, inode) ==
    LET actions == B.rec[r].actions IN
    IF actions # <<>> /\ Head(actions).t = "FileDel"
    THEN LET h == Head(actions)
             e0 == IF h.contents = NoAtom THEN EdgeMap(<<>>, inode) ELSE h.contents
             acc == dfe_parents(iter_adjacent(to, {PARENT}, AllFlags \ {DELETED}), to,
                                [edges |-> e0.edges, err |-> "ok"])
         IN IF acc.err # "ok" THEN Failed(B, acc.err)
            ELSE [B EXCEPT !.rec[r].actions[1].contents =
                     IF acc.edges # <<>> THEN [e0 EXCEPT !.edges = acc.edges]
                     ELSE NoAtom]
    ELSE Failed(B, "unreachable")

\* Recorded::delete_file_edge
delete_file_edge(B, r, to, inode) ==
    LET actions == B.rec[r].actions IN
    IF actions # <<>> /\ Last(actions).t = "FileDel"
    THEN LET h == Last(actions)
             e0 == IF h.contents = NoAtom THEN EdgeMap(<<>>, inode) ELSE h.contents
             acc == dfe_parents(iter_adjacent(to, {PARENT}, AllFlags \ {DELETED}), to,
                                [edges |-> e0.edges, err |-> "ok"])
         IN IF acc.err # "ok" THEN Failed(B, acc.err)
            ELSE [B EXCEPT !.rec[r].actions[Len(actions)].contents =
                     IF acc.edges # <<>> THEN [e0 EXCEPT !.edges = acc.edges]
                     ELSE NoAtom]
    ELSE Failed(B, "unreachable")

\* A descendants loop that remembers the edges it followed, not the positions
\* it pushed.
RECURSIVE rdf_descend_by_edge(_, _, _, _)
rdf_descend_by_edge(es, vertex, inode, st) ==
    IF es = <<>> \/ st.err # "ok" THEN st
    ELSE LET edge == Head(es)
             dest == find_block(edge.dest)
             ino == IF inode # NoPos THEN inode
                    ELSE IF FOLDER \in edge.flag THEN NoPos
                    ELSE start_pos(vertex)
         IN rdf_descend_by_edge(Tail(es), vertex, inode,
                IF <<vertex, edge.dest>> \in st.visited THEN st
                ELSE [st EXCEPT !.visited = @ \cup {<<vertex, edge.dest>>},
                                !.stack = Append(@, <<dest, ino>>)])

\* The descendants loop of record_deleted_file (lines 1271-1295): st is
\* [stack, visited, err].
RECURSIVE rdf_descend(_, _, _, _)
rdf_descend(es, vertex, inode, st) ==
    IF es = <<>> \/ st.err # "ok" THEN st
    ELSE LET edge == Head(es)
             dest == find_block(edge.dest)
         IN IF inode # NoPos /\ FOLDER \in edge.flag THEN [st EXCEPT !.err = "panic"]
            ELSE IF inode = NoPos /\ FOLDER \notin edge.flag /\ vertex.start # vertex.end
            THEN [st EXCEPT !.err = "panic"]
            ELSE
            LET ino == IF inode # NoPos THEN inode
                       ELSE IF FOLDER \in edge.flag THEN NoPos
                       ELSE start_pos(vertex)
            IN rdf_descend(Tail(es), vertex, inode,
                   IF edge.dest \in st.visited THEN st
                   ELSE [st EXCEPT !.visited = @ \cup {edge.dest},
                                   !.stack = Append(@, <<dest, ino>>)])

\* A test that never finds the inode vertex in the set.
already_deleted_never(B, p) == FALSE

\* !deleted_vertices.insert(vertex.start_pos()) (lines 1242-1246): the inode
\* vertex is in the shared set already.
already_deleted(B, p) == p \in B.deleted_vertices

\* The "kill this vertex" step of record_deleted_file (lines 1237-1268):
\* [b, skip], skip when the inode vertex was deleted already.
rdf_kill(B, r, full_path, vertex, inode) ==
    IF inode # NoPos THEN [b |-> delete_file_edge(B, r, vertex, inode), skip |-> FALSE]
    ELSE IF vertex.start = vertex.end
    THEN IF already_deleted(B, start_pos(vertex)) THEN [b |-> B, skip |-> TRUE]
         ELSE
         LET B1 == [B EXCEPT !.deleted_vertices = @ \cup {start_pos(vertex)}]
             ino == get_revinodes(start_pos(vertex))
             B2 == IF ino # NoInode
                   THEN [B1 EXCEPT
                           !.recorded_inodes = MapInsert(@, ino, start_pos(vertex)),
                           !.rec[r].updatables =
                               MapInsert(@, Len(B1.rec[r].actions),
                                         [t |-> "Deleted", inode |-> ino])]
                   ELSE B1
         IN [b |-> delete_inode_vertex(B2, r, vertex, start_pos(vertex), full_path),
             skip |-> FALSE]
    ELSE [b |-> B, skip |-> FALSE]

\* The walk of record_deleted_file (lines 1228-1296); stk is a Vec used as a
\* stack of <<vertex, owning inode>>.
RECURSIVE rdf_loop(_, _, _, _, _)
rdf_loop(B, r, full_path, stk, visited) ==
    IF stk = <<>> \/ B.err # "ok" THEN B
    ELSE
    LET vertex == Last(stk)[1]
        inode == Last(stk)[2]
        rest == Front(stk)
        tp == tree_path(start_pos(vertex))
    IN IF tp.ok /\ file_metadata(tp.path).ok
       THEN rdf_loop(B, r, full_path, rest, visited)
       ELSE
       LET k == rdf_kill(B, r, full_path, vertex, inode) IN
       IF k.skip THEN rdf_loop(B, r, full_path, rest, visited)
       ELSE IF k.b.err # "ok" THEN k.b
       ELSE
       LET st == rdf_descend(
                     iter_adjacent(vertex, {}, AllFlags \ {DELETED, PARENT}),
                     vertex, inode,
                     [stack |-> rest, visited |-> visited, err |-> "ok"])
       IN IF st.err # "ok" THEN Failed(k.b, st.err)
          ELSE rdf_loop(k.b, r, full_path, st.stack, st.visited)

\* Recorded::record_deleted_file
record_deleted_file(B, r, full_path, current_vertex) ==
    rdf_loop(B, r, full_path, << <<inode_vertex(current_vertex), NoPos>> >>, {})

(***************************************************************************)
(* The move/rename algebra (record.rs, lines 901-1206).                    *)
(***************************************************************************)
\* The build is a unix one: cfg!(unix) holds and cfg!(windows) does not.
cfg_unix == TRUE

cfg_windows == FALSE

\* HashMap<(from, to), Vec<Option<ChangeId>>>::entry(..).or_insert_with(Vec::new)
\* .push(x), the map kept as a sequence of entries.
RECURSIVE MultiPush(_, _, _, _)
MultiPush(m, from, to, x) ==
    IF m = <<>> THEN << [from |-> from, to |-> to, intro |-> <<x>>] >>
    ELSE IF Head(m).from = from /\ Head(m).to = to
    THEN <<[Head(m) EXCEPT !.intro = Append(@, x)]>> \o Tail(m)
    ELSE <<Head(m)>> \o MultiPush(Tail(m), from, to, x)

\* A comparison that never sees the directory change.
grandparent_never_differs(parent_pos, gp) == FALSE

\* let grandparent_changed = parent_pos != grandparent.dest().to_option()
\* (line 1103)
grandparent_differs(parent_pos, gp) == parent_pos # gp.dest

\* The body of the grandparent loop of collect_moved_edges (lines 1087-1169).
cme_grandparent(st, gp, parent, parent_dest, parent_pos, current, name_changed, meta_changed0, new_meta) ==
    IF ~({FOLDER, PARENT} \subseteq gp.flag) \/ PSEUDO \in gp.flag THEN st
    ELSE
    LET grandparent_dest == find_block_end(gp.dest)
        meta_changed ==
            IF cfg_windows /\ ~meta_changed0 /\ st.has_last_alive_meta
            THEN new_meta # st.last_alive_meta ELSE meta_changed0
        grandparent_changed == grandparent_differs(parent_pos, gp)
        reassert == NewEdge(parent.flag \ {PARENT}, {FOLDER, BLOCK}, parent.dest,
                            current, parent.intro)
        push_alive == ~st.parent_was_resurrected /\ PSEUDO \notin parent.flag
        st1 ==
            IF grandparent_dest.start # grandparent_dest.end
            THEN [st EXCEPT !.err = "panic"]
            ELSE IF DELETED \in gp.flag
            THEN IF ~grandparent_changed /\ ~name_changed /\ ~meta_changed
                 THEN [st EXCEPT
                         !.resurrect = Append(@, NewEdge(gp.flag \ {PARENT},
                                                  {FOLDER, BLOCK}, gp.dest,
                                                  parent_dest, gp.intro)),
                         !.alive = IF push_alive THEN Append(@, reassert) ELSE @,
                         !.need_new_name = FALSE]
                 ELSE [st EXCEPT
                         !.del_del = MultiPush(@, gp.dest, parent_dest, gp.intro)]
            ELSE IF grandparent_changed \/ name_changed \/ (meta_changed /\ cfg_unix)
                    \/ ~st.is_first_parent
            THEN [st EXCEPT
                    !.edges = Append(@, NewEdge(parent.flag \ {PARENT},
                                               {FOLDER, BLOCK, DELETED}, gp.dest,
                                               parent_dest, gp.intro)),
                    !.alive = IF push_alive THEN Append(@, reassert) ELSE @]
            ELSE [st EXCEPT
                    !.has_last_alive_meta = TRUE,
                    !.last_alive_meta = new_meta,
                    !.alive_map = MultiPush(@, gp.dest, parent_dest, gp.intro),
                    !.need_new_name = FALSE]
    IN IF st1.err = "ok" /\ DELETED \notin gp.flag
       THEN [st1 EXCEPT !.is_first_parent = FALSE] ELSE st1

\* A grandparent loop in which every edge counts as the first.
RECURSIVE cme_grandparents_all_first(_, _, _, _, _, _, _, _, _)
cme_grandparents_all_first(st, gps, parent, parent_dest, parent_pos, current, name_changed, meta_changed0, new_meta) ==
    IF gps = <<>> \/ st.err # "ok" THEN st
    ELSE cme_grandparents_all_first(
             cme_grandparent([st EXCEPT !.is_first_parent = TRUE], Head(gps), parent,
                             parent_dest, parent_pos, current, name_changed,
                             meta_changed0, new_meta),
             Tail(gps), parent, parent_dest, parent_pos, current, name_changed,
             meta_changed0, new_meta)

RECURSIVE cme_grandparents(_, _, _, _, _, _, _, _, _)
cme_grandparents(st, gps, parent, parent_dest, parent_pos, current, name_changed, meta_changed0, new_meta) ==
    IF gps = <<>> \/ st.err # "ok" THEN st
    ELSE cme_grandparents(
             cme_grandparent(st, Head(gps), parent, parent_dest, parent_pos, current,
                             name_changed, meta_changed0, new_meta),
             Tail(gps), parent, parent_dest, parent_pos, current, name_changed,
             meta_changed0, new_meta)

\* A comparison that never sees a basename change.
name_never_differs(parent_name, name) == FALSE

\* let name_changed = parent_name != name (line 1074)
name_differs(parent_name, name) == parent_name # name

\* The body of the parent loop of collect_moved_edges (lines 1025-1171).
cme_parent(st, parent, parent_pos, current, new_meta, name) ==
    IF ~({FOLDER, PARENT} \subseteq parent.flag) THEN st
    ELSE
    LET st1 ==
            IF PSEUDO \in parent.flag
            THEN [st EXCEPT !.parent_was_resurrected = FALSE]
            ELSE IF DELETED \in parent.flag
            THEN [st EXCEPT
                    !.resurrect = Append(@, NewEdge(parent.flag \ {PARENT},
                                             {FOLDER, BLOCK}, parent.dest, current,
                                             parent.intro)),
                    !.parent_was_resurrected = TRUE,
                    !.alive_map = MultiPush(@, parent.dest, current, NoChange)]
            ELSE [st EXCEPT
                    !.parent_was_resurrected = FALSE,
                    !.alive_map = MultiPush(@, parent.dest, current, parent.intro)]
        parent_dest == find_block_end(parent.dest)
        fm == get_file_meta(parent_dest)
    IN IF ~fm.ok THEN [st1 EXCEPT !.err = "Changestore"]
       ELSE cme_grandparents(st1,
                iter_adjacent(parent_dest, {FOLDER, PARENT}, AllFlags),
                parent, parent_dest, parent_pos, current,
                name_differs(fm.fm.basename, name), new_meta # fm.fm.metadata,
                new_meta)

RECURSIVE cme_parents(_, _, _, _, _, _)
cme_parents(st, ps, parent_pos, current, new_meta, name) ==
    IF ps = <<>> \/ st.err # "ok" THEN st
    ELSE cme_parents(cme_parent(st, Head(ps), parent_pos, current, new_meta, name),
                     Tail(ps), parent_pos, current, new_meta, name)

\* The rewrites pushed for one map entry by the two final loops of
\* collect_moved_edges (lines 1173-1203).
RECURSIVE cme_rewrites(_, _, _, _)
cme_rewrites(intro, from, to, f) ==
    IF intro = <<>> THEN <<>>
    ELSE (IF Head(intro) # NoChange
          THEN <<NewEdge(f, f, from, to, Head(intro))>> ELSE <<>>)
         \o cme_rewrites(Tail(intro), from, to, f)

RECURSIVE cme_del_del(_)
cme_del_del(m) ==
    IF m = <<>> THEN <<>>
    ELSE (IF Len(Head(m).intro) > 1
          THEN cme_rewrites(Head(m).intro, Head(m).from, Head(m).to,
                            {FOLDER, BLOCK, DELETED})
          ELSE <<>>)
         \o cme_del_del(Tail(m))

RECURSIVE cme_alive(_, _)
cme_alive(m, resurrecting) ==
    IF m = <<>> THEN <<>>
    ELSE (IF Len(Head(m).intro) > 1 \/ resurrecting
          THEN cme_rewrites(Head(m).intro, Head(m).from, Head(m).to, {FOLDER, BLOCK})
          ELSE <<>>)
         \o cme_alive(Tail(m), resurrecting)

\* collect_moved_edges: MovedEdges, or the error.
collect_moved_edges(parent_pos, current_pos, new_meta, name) ==
    LET st0 == [edges |-> <<>>, alive |-> <<>>, resurrect |-> <<>>,
                need_new_name |-> TRUE, del_del |-> <<>>, alive_map |-> <<>>,
                has_last_alive_meta |-> FALSE, last_alive_meta |-> new_meta,
                is_first_parent |-> TRUE, parent_was_resurrected |-> FALSE,
                err |-> "ok"]
        st == cme_parents(st0,
                  iter_adjacent(inode_vertex(current_pos), {FOLDER, PARENT}, AllFlags),
                  parent_pos, inode_vertex(current_pos), new_meta, name)
    IN [edges |-> st.edges \o cme_del_del(st.del_del),
        alive |-> st.alive \o cme_alive(st.alive_map, st.resurrect # <<>>),
        resurrect |-> st.resurrect,
        need_new_name |-> st.need_new_name,
        err |-> st.err]

\* crate::fs::find_path: the path the graph gives the file (its first live name).
find_path(vertex) ==
    LET es == iter_adjacent(inode_vertex(vertex), {FOLDER, PARENT}, AllFlags \ {DELETED})
    IN IF es = <<>> THEN <<>>
       ELSE LET fm == get_file_meta(find_block_end(es[1].dest))
            IN <<fm.fm.basename>>

\* A truncation that cuts one byte below the offset.
truncate_below(c, n) == SubSeq(c, 1, n - 1)

\* A truncation that cuts nothing.
truncate_never(c, n) == c

\* Vec::truncate (lines 977 and 980): the buffer cut back to the offset n.
truncate(c, n) == SubSeq(c, 1, n)

\* A record_moved_file that emits nothing after a FileUndel.
rmf_emit_undel_alone(B1, r, item, vertex, encoding, meta_start, moved) ==
    IF moved.err # "ok" THEN Failed(B1, moved.err)
    ELSE IF moved.resurrect # <<>>
    THEN [B1 EXCEPT
            !.rec[r].actions =
                Append(@, [t |-> "FileUndel",
                           undel |-> EdgeMap(moved.resurrect \o moved.alive, item.v_papa),
                           contents |-> NoAtom,
                           path |-> item.full_path,
                           encoding |-> encoding]),
            !.contents = truncate(@, meta_start)]
    ELSE IF moved.edges # <<>>
    THEN [B1 EXCEPT
            !.rec[r].actions =
                Append(@, IF moved.need_new_name
                          THEN [t |-> "FileMove",
                                del |-> EdgeMap(moved.edges, item.v_papa),
                                add |-> NewVertex(<<item.v_papa>>, <<vertex>>, meta_start,
                                                  Len(B1.contents), {FOLDER, BLOCK},
                                                  item.v_papa),
                                path |-> find_path(vertex)]
                          ELSE [t |-> "SolveNameConflict",
                                name |-> EdgeMap(moved.edges, item.v_papa),
                                path |-> item.full_path]),
            !.contents = IF moved.need_new_name THEN @ ELSE truncate(@, meta_start)]
    ELSE [B1 EXCEPT !.contents = truncate(@, meta_start)]

\* The hunks of record_moved_file (lines 922-981), once the new name is
\* written at meta_start and the edges are collected.
rmf_emit(B1, r, item, vertex, encoding, meta_start, moved) ==
    IF moved.err # "ok" THEN Failed(B1, moved.err)
    ELSE
    LET undel == moved.resurrect # <<>>
        resurrect == moved.resurrect \o moved.alive
                     \o (IF ~moved.need_new_name THEN moved.edges ELSE <<>>)
        edges == IF undel /\ ~moved.need_new_name THEN <<>> ELSE moved.edges
        a1 == IF undel
              THEN <<[t |-> "FileUndel",
                      undel |-> EdgeMap(resurrect, item.v_papa),
                      contents |-> NoAtom,
                      path |-> item.full_path,
                      encoding |-> encoding]>>
              ELSE <<>>
        a2 == IF edges # <<>>
              THEN IF moved.need_new_name
                   THEN <<[t |-> "FileMove",
                           del |-> EdgeMap(edges, item.v_papa),
                           add |-> NewVertex(<<item.v_papa>>, <<vertex>>, meta_start,
                                             Len(B1.contents), {FOLDER, BLOCK},
                                             item.v_papa),
                           path |-> find_path(vertex)]>>
                   ELSE <<[t |-> "SolveNameConflict",
                           name |-> EdgeMap(edges, item.v_papa),
                           path |-> item.full_path]>>
              ELSE <<>>
        keep == edges # <<>> /\ moved.need_new_name
    IN [B1 EXCEPT !.rec[r].actions = @ \o a1 \o a2,
                  !.contents = IF keep THEN @ ELSE truncate(@, meta_start)]

\* Recorded::record_moved_file
record_moved_file(B, r, item, vertex, new_papa, encoding) ==
    rmf_emit([B EXCEPT !.contents =
                 @ \o FileMetadataWrite(FileMeta(item.metadata, item.basename, encoding))],
             r, item, vertex, encoding, Len(B.contents),
             collect_moved_edges(new_papa, vertex, item.metadata, item.basename))

(***************************************************************************)
(* The line model (diff/mod.rs, lines 16-121).                             *)
(* A buffer is a sequence of bytes; offsets count from 0 as in the source. *)
(* A pointer is <<buffer, offset>>.                                        *)
(***************************************************************************)
NL == 10

EndMarker == "End"

Line(l, cyclic, bem, last, ptr) ==
    [l |-> l, cyclic |-> cyclic, before_end_marker |-> bem, last |-> last, ptr |-> ptr]

\* An equality that knows no bridge rule: bytes and cyclic bits only.
eq_without_bridge(a, b) == a.l = b.l /\ a.cyclic = b.cyclic

\* An equality under which no two lines are equal.
eq_never(a, b) == FALSE

\* impl PartialEq for Line
eq(a, b) ==
    IF a.before_end_marker /\ ~b.last /\ b.l # <<>> /\ Last(b.l) = NL
    THEN Front(b.l) = a.l
    ELSE IF b.before_end_marker /\ ~a.last /\ a.l # <<>> /\ Last(a.l) = NL
    THEN Front(a.l) = b.l
    ELSE ((a.ptr = b.ptr /\ Len(a.l) = Len(b.l)) \/ a.l = b.l) /\ a.cyclic = b.cyclic

\* split::LineSplit and vertex_buffer::Diff::lines: the lines of a buffer, each
\* with its newline, as [off, l]; off is the offset of the line in the buffer.
RECURSIVE SplitFrom(_, _, _)
SplitFrom(buf, off, cur) ==
    IF off + Len(cur) >= Len(buf)
    THEN IF cur = <<>> THEN <<>> ELSE <<[off |-> off, l |-> cur]>>
    ELSE LET c == buf[off + Len(cur) + 1] IN
         IF c = NL
         THEN <<[off |-> off, l |-> Append(cur, c)]>>
              \o SplitFrom(buf, off + Len(cur) + 1, <<>>)
         ELSE SplitFrom(buf, off, Append(cur, c))

LineSplit(buf) == SplitFrom(buf, 0, <<>>)

\* binary_search(&(x, usize::MAX)) on the sorted vector of ranges: the number
\* of ranges below (x, MAX), which is Err(n) since no range ends at MAX.
RECURSIVE SearchIndex(_, _)
SearchIndex(ranges, x) ==
    IF ranges = <<>> \/ Head(ranges)[1] > x THEN 0
    ELSE 1 + SearchIndex(Tail(ranges), x)

\* make_old_lines, d = [contents_a, cyclic_conflict_bytes, marker]
make_old_lines(d) ==
    LET ls == LineSplit(d.contents_a) IN
    [k \in 1..Len(ls) |->
        LET l == ls[k].l
            old_bytes == ls[k].off
            n == SearchIndex(d.cyclic_conflict_bytes, old_bytes)
            cyclic == n > 0 /\ d.cyclic_conflict_bytes[n][1] <= old_bytes
                            /\ old_bytes < d.cyclic_conflict_bytes[n][2]
            next_index == old_bytes + Len(l) + 1
            before_end_marker ==
                IF Last(l) # NL
                THEN next_index \in DOMAIN d.marker /\ d.marker[next_index] = EndMarker
                ELSE FALSE
        IN Line(l, cyclic, before_end_marker,
                old_bytes + Len(l) >= Len(d.contents_a), <<"a", old_bytes>>)]

\* make_new_lines
make_new_lines(b) ==
    LET ls == LineSplit(b) IN
    [k \in 1..Len(ls) |->
        LET next_index == ls[k].off + Len(ls[k].l)
        IN Line(ls[k].l, FALSE, FALSE, next_index >= Len(b), <<"b", ls[k].off>>)]

\* bytes_pos
bytes_pos(chunks, old) == chunks[old + 1].ptr[2] - chunks[1].ptr[2]

\* bytes_len: [ok, v]; chunks[k] with k >= chunks.len() is an index out of
\* bounds, a panic. Lines are counted from 0, as in the source.
bytes_len(chunks, old, len) ==
    IF old + len < Len(chunks)
    THEN [ok |-> TRUE, v |-> chunks[old + len + 1].ptr[2] - chunks[old + 1].ptr[2]]
    ELSE IF old + len > 0
    THEN IF old + len - 1 < Len(chunks) /\ old < Len(chunks)
         THEN [ok |-> TRUE,
               v |-> chunks[old + len].ptr[2] + Len(chunks[old + len].l)
                       - chunks[old + 1].ptr[2]]
         ELSE [ok |-> FALSE, v |-> 0]
    \* chunks.get(0) is None: the array is empty and chunks[0] is out of bounds
    ELSE [ok |-> FALSE, v |-> 0]

(***************************************************************************)
(* The diff driver (diff/mod.rs, lines 123-214) and what it drives.        *)
(***************************************************************************)
\* alive::retrieve and alive::output_graph into a vertex_buffer::Diff: the
\* alive content of the file below the inode vertex, in order.
RECURSIVE alive_chain(_, _)
alive_chain(v, fuel) ==
    LET es == iter_adjacent(v, {BLOCK}, {BLOCK, PSEUDO}) IN
    IF es = <<>> \/ fuel = 0 THEN <<>>
    ELSE <<find_block(es[1].dest)>> \o alive_chain(find_block(es[1].dest), fuel - 1)

RECURSIVE Concat(_)
Concat(ss) == IF ss = <<>> THEN <<>> ELSE Head(ss) \o Concat(Tail(ss))

output_graph(vertex) ==
    LET vs == alive_chain(inode_vertex(vertex), Cardinality(Vertices))
        texts == [k \in 1..Len(vs) |-> world.text[vs[k]]]
    IN [contents_a |-> Concat(texts),
        pos_a |-> [k \in 1..Len(vs) |->
                     [off |-> Len(Concat(SubSeq(texts, 1, k - 1))), v |-> vs[k]]],
        cyclic_conflict_bytes |-> <<>>,
        marker |-> EmptyMap]

\* diff::diff (the LCS, whatever the algorithm): here the hunk left between the
\* longest common prefix and suffix of the two line arrays.
RECURSIVE CommonPrefix(_, _)
CommonPrefix(a, b) ==
    IF a = <<>> \/ b = <<>> THEN 0
    ELSE IF ~eq(Head(a), Head(b)) THEN 0
    ELSE 1 + CommonPrefix(Tail(a), Tail(b))

Reverse(s) == [i \in 1..Len(s) |-> s[Len(s) + 1 - i]]

diff_diff(a, b) ==
    LET p == CommonPrefix(a, b)
        a1 == SubSeq(a, p + 1, Len(a))
        b1 == SubSeq(b, p + 1, Len(b))
        q == CommonPrefix(Reverse(a1), Reverse(b1))
    IN IF Len(a1) = q /\ Len(b1) = q THEN <<>>
       ELSE <<[old |-> p, old_len |-> Len(a1) - q, new |-> p, new_len |-> Len(b1) - q]>>

\* The vertex of pos_a that covers old line k (counted from 0).
VertexOfLine(d, lines_a, k) ==
    LET off == lines_a[k + 1].ptr[2]
        i == CHOOSE i \in 1..Len(d.pos_a) :
                 /\ d.pos_a[i].off <= off
                 /\ \A j \in 1..Len(d.pos_a) : d.pos_a[j].off <= off => j <= i
    IN d.pos_a[i].v

RECURSIVE DeleteEdges(_, _)
DeleteEdges(vs, acc) ==
    IF vs = <<>> THEN acc
    ELSE LET ps == iter_adjacent(Head(vs), {PARENT}, AllFlags \ {DELETED})
             new == [k \in 1..Len(ps) |->
                       NewEdge(ps[k].flag \ {PARENT},
                               (ps[k].flag \ {PARENT}) \cup {DELETED},
                               ps[k].dest, Head(vs), ps[k].intro)]
         IN DeleteEdges(Tail(vs), acc \o new)

\* Recorded::delete (delete.rs): the deletion of the old lines of hunk h.
diff_delete(B, r, d, h, lines_a, inode, path, encoding) ==
    LET vs == [k \in 1..h.old_len |-> VertexOfLine(d, lines_a, h.old + k - 1)]
    IN [B EXCEPT !.rec[r].actions =
           Append(@, [t |-> "Edit",
                      change |-> EdgeMap(DeleteEdges(vs, <<>>), inode),
                      path |-> path,
                      encoding |-> encoding])]

\* Recorded::replace (replace.rs): the new vertex holding the new lines of
\* hunk h; it joins the deletion of the same hunk in one Replace.
diff_replace(B, r, d, h, lines_a, lines_b, inode, path, encoding) ==
    LET bytes == Concat([k \in 1..h.new_len |-> lines_b[h.new + k].l])
        start == Len(B.contents)
        up == IF h.old > 0 THEN <<end_pos(VertexOfLine(d, lines_a, h.old - 1))>>
              ELSE <<inode>>
        down == IF h.old + h.old_len < Len(lines_a)
                THEN <<start_pos(VertexOfLine(d, lines_a, h.old + h.old_len))>>
                ELSE <<>>
        nv == NewVertex(up, down, start, start + Len(bytes), {BLOCK}, inode)
        acts == B.rec[r].actions
    IN [B EXCEPT
          !.contents = @ \o bytes,
          !.rec[r].actions =
              IF h.old_len > 0 /\ acts # <<>> /\ Last(acts).t = "Edit"
              THEN Append(Front(acts),
                          [t |-> "Replace", change |-> Last(acts).change,
                           replacement |-> nv, path |-> path, encoding |-> encoding])
              ELSE Append(acts, [t |-> "Edit", change |-> nv, path |-> path,
                                 encoding |-> encoding])]

\* The loop of Recorded::diff over the hunks (lines 163-188).
RECURSIVE diff_hunks(_, _, _, _, _, _, _, _, _)
diff_hunks(B, r, d, dd, lines_a, lines_b, inode, path, encoding) ==
    IF dd = <<>> \/ B.err # "ok" THEN B
    ELSE LET h == Head(dd)
             B1 == IF h.old_len > 0
                   THEN diff_delete(B, r, d, h, lines_a, inode, path, encoding)
                   ELSE B
             B2 == IF B1.err = "ok" /\ h.new_len > 0
                   THEN diff_replace(B1, r, d, h, lines_a, lines_b, inode, path, encoding)
                   ELSE B1
         IN diff_hunks(B2, r, d, Tail(dd), lines_a, lines_b, inode, path, encoding)

\* Recorded::diff (text mode: the encoding is not None).
diff(B, r, path, inode, b, encoding) ==
    LET d == output_graph(inode)
        lines_a == make_old_lines(d)
        lines_b == make_new_lines(b)
        dd == diff_diff(lines_a, lines_b)
        B1 == [B EXCEPT !.rec[r].largest_file = Max2(@, Len(b))]
    IN diff_hunks(B1, r, d, dd, lines_a, lines_b, inode, path, encoding)

(***************************************************************************)
(* Recorded::record_existing_file (record.rs, lines 741-899).              *)
(***************************************************************************)
\* modified_since_last_commit: [ok, v]; a modification time before the epoch
\* is a SystemTimeError.
modified_since_last_commit(path) ==
    LET mt == modified_time(path) IN
    IF mt.ok
    THEN IF mt.t < UnixEpoch THEN [ok |-> FALSE, v |-> FALSE]
         ELSE [ok |-> TRUE, v |-> mt.t >= world.last_modified]
    ELSE [ok |-> TRUE, v |-> TRUE]

\* The loop over the names of the file (lines 770-820): st is
\* [former_parents, is_deleted, done, err].
RECURSIVE ref_names(_, _)
ref_names(ns, st) ==
    IF ns = <<>> \/ st.done \/ st.err # "ok" THEN st
    ELSE LET name_ == Head(ns) IN
         IF PARENT \notin name_.flag THEN ref_names(Tail(ns), st)
         ELSE IF DELETED \in name_.flag
         THEN [st EXCEPT !.is_deleted = TRUE, !.done = TRUE]
         ELSE
         LET name_dest == find_block_end(name_.dest)
             fm == get_file_meta(name_dest)
             ps == iter_adjacent(name_dest, {FOLDER, PARENT}, AllFlags)
         IN IF ~fm.ok THEN [st EXCEPT !.err = "Changestore"]
            ELSE ref_names(Tail(ns),
                     IF ps # <<>> /\ DELETED \notin ps[1].flag
                     THEN [st EXCEPT !.former_parents =
                              Append(@, [basename |-> fm.fm.basename,
                                         metadata |-> fm.fm.metadata,
                                         encoding |-> fm.fm.encoding,
                                         parent |-> ps[1].dest])]
                     ELSE st)

\* The update of oldest_change after the diff (lines 872-885).
ref_oldest(B1, r, len, mt) ==
    IF B1.err # "ok" THEN B1
    ELSE IF Len(B1.rec[r].actions) > len /\ mt.ok
    THEN [B1 EXCEPT !.rec[r].oldest_change =
             IF @ = UnixEpoch THEN mt.t ELSE Min2(@, mt.t)]
    ELSE B1

\* The re-diff of a regular file (lines 845-886).
ref_rediff(B, r, item, vertex) ==
    LET m == modified_since_last_commit(item.full_path) IN
    IF ~opts.force_rediff /\ ~m.ok THEN Failed(B, "SystemTime")
    ELSE IF ~(opts.force_rediff \/ m.v) THEN B
    ELSE
    LET dec == decode_file(item.full_path) IN
    IF ~dec.ok THEN Failed(B, "WorkingCopy")
    ELSE ref_oldest(diff(B, r, item.full_path, vertex, dec.bytes, dec.encoding),
                    r, Len(B.rec[r].actions), modified_time(item.full_path))

\* A re-diff that leaves the hunks of the record in the opposite order.
ref_after_move_reversed(B1, r, item, vertex, new_meta) ==
    IF B1.err # "ok" \/ new_meta.meta.dir THEN B1
    ELSE [ref_rediff(B1, r, item, vertex) EXCEPT !.rec[r].actions = Reverse(@)]

\* What follows the move in record_existing_file (lines 843-887).
ref_after_move(B1, r, item, vertex, new_meta) ==
    IF B1.err # "ok" THEN B1
    ELSE IF ~new_meta.meta.dir THEN ref_rediff(B1, r, item, vertex)
    ELSE B1

\* Recorded::record_existing_file
record_existing_file(B, r, item, new_papa, vertex) ==
    LET st == ref_names(iter_adjacent(inode_vertex(vertex), {FOLDER, PARENT}, AllFlags),
                        [former_parents |-> <<>>, is_deleted |-> TRUE, done |-> FALSE,
                         err |-> "ok"])
        former_parents == st.former_parents
        new_meta == file_metadata(item.full_path)
    IN
    IF st.err # "ok" THEN Failed(B, st.err)
    ELSE IF former_parents = <<>> THEN Failed(B, "panic")
    ELSE IF new_meta.ok
    THEN LET moved == \/ Len(former_parents) > 1
                      \/ former_parents[1].basename # item.basename
                      \/ former_parents[1].metadata # item.metadata
                      \/ former_parents[1].parent # item.v_papa
                      \/ st.is_deleted
         IN ref_after_move(IF ~moved THEN B
                           ELSE IF new_papa = NoPos THEN Failed(B, "panic")
                           ELSE record_moved_file(B, r, item, vertex, new_papa,
                                                  former_parents[1].encoding),
                           r, item, vertex, new_meta)
    ELSE record_deleted_file(B, r, item.full_path, vertex)

(***************************************************************************)
(* The tree walker (record.rs, lines 273-621) and Builder::finish.         *)
(***************************************************************************)
RecordItem(v_papa, papa, inode, basename, full_path, metadata) ==
    [v_papa |-> v_papa, papa |-> papa, inode |-> inode, basename |-> basename,
     full_path |-> full_path, metadata |-> metadata]

\* RecordItem::root
RecordItem_root == RecordItem(PositionROOT, InodeROOT, InodeROOT, "", <<>>, Meta(TRUE, 0))

\* The body of the grandchild loop of delete_obsolete_children (lines 495-536).
doc_grandchild(B, full_path, child, grandchild) ==
    LET inode == get_revinodes(grandchild.dest)
        fname == inode_filename(inode)
        needs_deletion ==
            IF inode # NoInode
            THEN IF fname.ok THEN ~file_metadata(fname.path).ok ELSE TRUE
            ELSE TRUE
        name == get_file_meta(child)
    IN IF ~needs_deletion THEN B
       ELSE IF ~name.ok THEN Failed(B, "Changestore")
       ELSE LET B1 == recorded(B)
            IN record_deleted_file(B1, Len(B1.rec), Append(full_path, name.fm.basename),
                                   grandchild.dest)

RECURSIVE doc_grandchildren(_, _, _, _)
doc_grandchildren(B, full_path, child, gcs) ==
    IF gcs = <<>> \/ B.err # "ok" THEN B
    ELSE doc_grandchildren(doc_grandchild(B, full_path, child, Head(gcs)),
                           full_path, child, Tail(gcs))

RECURSIVE doc_children(_, _, _)
doc_children(B, full_path, cs) ==
    IF cs = <<>> \/ B.err # "ok" THEN B
    ELSE LET child == find_block(Head(cs).dest)
         IN doc_children(
                doc_grandchildren(B, full_path, child,
                    iter_adjacent(child, {FOLDER, BLOCK}, {FOLDER, BLOCK, PSEUDO})),
                full_path, Tail(cs))

\* Builder::delete_obsolete_children
delete_obsolete_children(B, full_path, v) ==
    IF opts.ignore_missing THEN B
    ELSE doc_children(B, full_path,
             iter_adjacent(inode_vertex(v), {FOLDER, BLOCK}, {FOLDER, BLOCK, PSEUDO}))

\* TreeTxnT::iter_tree from (parent_inode, ""): the entries of the tree table
\* that the loop of push_children does not skip, in basename order.
RECURSIVE SortTree(_)
SortTree(S) ==
    IF S = {} THEN <<>>
    ELSE LET m == CHOOSE t \in S :
                      \A u \in S \ {t} : NameRank(t.basename) < NameRank(u.basename)
         IN <<m>> \o SortTree(S \ {m})

iter_tree(parent_inode) ==
    SortTree({t \in world.tree : t.parent = parent_inode /\ t.basename # ""})

\* The loop of push_children over the tree table (lines 569-614): st is
\* [b, stack, has_matching_children].
RECURSIVE pc_children(_, _, _, _, _, _)
pc_children(st, ts, item, comp, components, vertex) ==
    IF ts = <<>> \/ st.b.err # "ok" THEN st
    ELSE
    LET t == Head(ts) IN
    IF comp # "" /\ comp # t.basename
    THEN pc_children(st, Tail(ts), item, comp, components, vertex)
    ELSE
    LET full_path == Append(item.full_path, t.basename)
        meta == file_metadata(full_path)
        gone == get_inodes(t.inode)
        st1 == [st EXCEPT !.has_matching_children = TRUE]
        st2 == IF meta.ok
               THEN [st1 EXCEPT !.stack =
                        Append(@, [item |-> RecordItem(vertex, item.inode, t.inode,
                                                       t.basename, full_path, meta.meta),
                                   components |-> components])]
               ELSE IF gone # NoPos
               THEN LET B1 == recorded(st1.b)
                    IN [st1 EXCEPT !.b =
                           record_deleted_file(B1, Len(B1.rec), full_path, gone)]
               ELSE st1
    IN pc_children(st2, Tail(ts), item, comp, components, vertex)

\* Builder::push_children: [b, stack]; the components are a sequence of
\* basenames, "" standing for no component.
pc_result(st, comp) ==
    IF st.b.err = "ok" /\ comp # "" /\ ~st.has_matching_children
    THEN [b |-> Failed(st.b, "PathNotInRepo"), stack |-> st.stack]
    ELSE [b |-> st.b, stack |-> st.stack]

push_children(B, item, components, vertex, stk) ==
    LET comp == IF components = <<>> THEN "" ELSE Head(components)
        rest == IF components = <<>> THEN <<>> ELSE Tail(components)
    IN pc_result(pc_children([b |-> B, stack |-> stk, has_matching_children |-> FALSE],
                             iter_tree(item.inode), item, comp, rest, vertex),
                 comp)

\* A merge that puts the hunks of the later record first.
finish_merge_reversed(res, r) ==
    [actions |-> r.actions \o res.actions,
     updatables |-> res.updatables,
     largest_file |-> Max2(res.largest_file, r.largest_file),
     has_binary_files |-> res.has_binary_files \/ r.has_binary_files,
     oldest_change |-> res.oldest_change]

\* The merge of one record into the result, in Builder::finish (lines 164-177).
finish_merge(res, r) ==
    LET off == Len(res.actions) IN
    [actions |-> res.actions \o r.actions,
     updatables |->
        [k \in (DOMAIN res.updatables) \cup {a + off : a \in DOMAIN r.updatables} |->
            IF k - off \in DOMAIN r.updatables THEN r.updatables[k - off]
            ELSE res.updatables[k]],
     largest_file |-> Max2(res.largest_file, r.largest_file),
     has_binary_files |-> res.has_binary_files \/ r.has_binary_files,
     oldest_change |->
        IF res.oldest_change = UnixEpoch
           \/ (r.oldest_change > UnixEpoch /\ r.oldest_change < res.oldest_change)
        THEN r.oldest_change ELSE res.oldest_change]

RECURSIVE finish_fold(_, _)
finish_fold(res, rs) ==
    IF rs = <<>> THEN res ELSE finish_fold(finish_merge(res, Head(rs)), Tail(rs))

\* Builder::finish
finish(rs) ==
    LET rs1 == IF rs = <<>> THEN <<recorded_>> ELSE rs
    IN finish_fold(Head(rs1), Tail(rs1))

\* One iteration of the walker's loop in Builder::record (lines 342-426), on
\* the popped (item, components).  First the item is visited:
\* [b, vertex, work, push, add_failed], push telling whether the iteration
\* goes on to push_children.
Visited(B, vertex, wk, push, add_failed) ==
    [b |-> B, vertex |-> vertex, work |-> wk, push |-> push, add_failed |-> add_failed]

\* lines 350-367: the root
walk_root(B2, wk) == Visited(B2, PositionROOT, wk, B2.err = "ok", FALSE)

\* A walker that looks the item itself up in the cache, not its parent.
walk_existing_papa_of_self(B1, item, vertex, wk) ==
    IF B1.err # "ok" THEN Visited(B1, vertex, wk, FALSE, FALSE)
    ELSE
    LET B2 == recorded(B1)
        B3 == [B2 EXCEPT !.recorded_inodes = MapInsert(@, item.inode, vertex)]
        task == [item |-> item, vertex |-> vertex, rec |-> Len(B2.rec),
                 new_papa |-> B3.recorded_inodes[item.inode]]
    IN Visited(B3, vertex, Append(wk, task), TRUE, FALSE)

\* lines 368-396: an inode the graph knows; B1 is the state after
\* delete_obsolete_children.
walk_existing(B1, item, vertex, wk) ==
    IF B1.err # "ok" THEN Visited(B1, vertex, wk, FALSE, FALSE)
    ELSE
    LET B2 == recorded(B1)
        B3 == [B2 EXCEPT !.recorded_inodes = MapInsert(@, item.inode, vertex)]
        new_papa == IF item.papa \in DOMAIN B3.recorded_inodes
                    THEN B3.recorded_inodes[item.papa] ELSE NoPos
        task == [item |-> item, vertex |-> vertex, rec |-> Len(B2.rec),
                 new_papa |-> new_papa]
    IN Visited(B3, vertex, Append(wk, task), TRUE, FALSE)

\* lines 397-409: an inode the graph does not know; a is what add_file returned.
walk_added(a, item, wk) ==
    IF a.res = "some"
    THEN Visited([a.b EXCEPT !.recorded_inodes = MapInsert(@, item.inode, a.pos)],
                 a.pos, wk, TRUE, FALSE)
    ELSE Visited(a.b, NoPos, wk, FALSE, a.res = "err")

walk_visit(B, item, wk) ==
    IF item.inode \in DOMAIN B.recorded_inodes
    THEN Visited(B, B.recorded_inodes[item.inode], wk, TRUE, FALSE)
    ELSE IF item.inode = InodeROOT
    THEN walk_root(delete_obsolete_children(
                       [B EXCEPT !.recorded_inodes =
                           MapInsert(@, InodeROOT, PositionROOT)],
                       item.full_path, PositionROOT), wk)
    ELSE IF get_inodes(item.inode) # NoPos
    THEN walk_existing(delete_obsolete_children(B, item.full_path,
                                                get_inodes(item.inode)),
                       item, get_inodes(item.inode), wk)
    ELSE walk_added(add_file(recorded(B), Len(B.rec) + 1, item), item, wk)

\* lines 415-425: [b, stack, work, add_failed]
walk_pushed(p, v) ==
    [b |-> p.b, stack |-> p.stack, work |-> v.work, add_failed |-> v.add_failed]

walk_children(v, item, components, stk) ==
    IF v.push
    THEN walk_pushed(push_children(v.b, item, components, v.vertex, stk), v)
    ELSE [b |-> v.b, stack |-> stk, work |-> v.work, add_failed |-> v.add_failed]

walk_iteration(B, item, components, stk, wk) ==
    walk_children(walk_visit(B, item, wk), item, components, stk)

(***************************************************************************)
(* The recording session: any number of Builder::record calls (with zero   *)
(* workers, as the source hard-codes), then Builder::finish.               *)
(***************************************************************************)
Prefixes == {<<>>, <<"a">>, <<"b">>, <<"a", "x">>, <<"q">>, <<"b", "q">>}

NoResult == [actions |-> <<>>, updatables |-> EmptyMap, largest_file |-> 0,
             has_binary_files |-> FALSE, oldest_change |-> UnixEpoch]

Builder == [rec |-> rec, recorded_inodes |-> recorded_inodes,
            deleted_vertices |-> deleted_vertices, contents |-> contents, err |-> "ok"]

SetBuilder(B) ==
    /\ rec' = B.rec
    /\ recorded_inodes' = B.recorded_inodes
    /\ deleted_vertices' = B.deleted_vertices
    /\ contents' = B.contents

LineOff == [phase |-> "off", d |-> [contents_a |-> <<>>, cyclic_conflict_bytes |-> <<>>,
                                     marker |-> EmptyMap],
            b |-> <<>>, old |-> <<>>, new |-> <<>>]

\* What an observer of the session has seen: the number of calls of record,
\* the builder at the start of the current call (rec0, contents0, cache0), the
\* records made by calls that returned an error, the tuples enqueued and
\* processed in the current call (each with the length of the contents buffer
\* before and after it), and whether add_file failed in it (with the offsets
\* of the bytes it had written).
Hist0 == [calls |-> 0, prefix |-> <<>>, rec0 |-> 0, contents0 |-> 0, cache0 |-> {}, failed |-> {},
          enq |-> <<>>, proc |-> <<>>, add_failed |-> FALSE, orphan |-> {}]

Init ==
    /\ world \in Worlds
    /\ opts \in [force_rediff : BOOLEAN, ignore_missing : BOOLEAN]
    /\ rec = <<>>
    /\ recorded_inodes = EmptyMap
    /\ deleted_vertices = {}
    /\ contents = <<>>
    /\ stack = <<>>
    /\ work = <<>>
    /\ stop = FALSE
    /\ pc = "idle"
    /\ ret = "none"
    /\ result = NoResult
    /\ hist = Hist0
    /\ lineSt = LineOff
    /\ workers = <<>>

\* A worker thread at the head of its loop (line 306), holding no tuple.
WorkerSpawned == [st |-> "loop", task |-> <<>>, err |-> "ok", joined |-> FALSE]

\* Builder::record is called with a prefix: the queue and the stack are set
\* up and one thread is spawned per worker of the pool (none at line 302).
RecordStart ==
    /\ pc = "idle"
    /\ hist.calls < MaxCalls
    /\ \E prefix \in Prefixes :
          /\ stack' = <<[item |-> RecordItem_root, components |-> prefix]>>
          /\ hist' = [hist EXCEPT !.calls = @ + 1, !.prefix = prefix,
                                  !.rec0 = Len(rec),
                                  !.contents0 = Len(contents),
                                  !.cache0 = DOMAIN recorded_inodes, !.enq = <<>>,
                                  !.proc = <<>>, !.add_failed = FALSE, !.orphan = {}]
    /\ work' = <<>>
    /\ stop' = FALSE
    /\ pc' = "walk"
    /\ ret' = "none"
    /\ workers' = [t \in DOMAIN workers |-> WorkerSpawned]
    /\ UNCHANGED <<world, opts, rec, recorded_inodes, deleted_vertices, contents,
                   result, lineSt>>

\* The ways a thread panics: a failed assertion or unwrap, and the
\* unreachable!() of delete_file_edge.
Panics == {"panic", "unreachable"}

\* How a call of Builder::record ends with the error e.
Returns(B, e) ==
    /\ pc' = IF e \in Panics THEN "panic" ELSE "idle"
    /\ ret' = e

\* The state after one iteration of the walker's loop, it being what the
\* iteration computed.
WalkApply(it) ==
    /\ SetBuilder(it.b)
    /\ stack' = it.stack
    /\ work' = it.work
    /\ IF it.b.err # "ok"
       THEN /\ Returns(it.b, it.b.err)
            /\ hist' = [hist EXCEPT
                          !.enq = @ \o SubSeq(it.work, Len(work) + 1, Len(it.work)),
                          !.failed = @ \cup (hist.rec0 + 1 .. Len(it.b.rec))]
       ELSE /\ pc' = "walk"
            /\ ret' = ret
            /\ hist' = [hist EXCEPT
                          !.enq = @ \o SubSeq(it.work, Len(work) + 1, Len(it.work)),
                          !.add_failed = @ \/ it.add_failed,
                          !.orphan = IF it.add_failed
                                     THEN @ \cup (Len(contents) + 1 .. Len(it.b.contents))
                                     ELSE @]

\* One iteration of the walker's loop.
WalkStep ==
    /\ pc = "walk"
    /\ stack # <<>>
    /\ WalkApply(walk_iteration(Builder, Last(stack).item, Last(stack).components,
                                Front(stack), work))
    /\ UNCHANGED <<world, opts, stop, result, lineSt, workers>>

\* A walker that starts draining without setting the stop flag.
WalkDone_without_stop ==
    /\ pc = "walk"
    /\ stack = <<>>
    /\ pc' = "drain"
    /\ UNCHANGED <<world, opts, rec, recorded_inodes, deleted_vertices, contents,
                   stack, work, stop, ret, result, hist, lineSt, workers>>

\* The stack is empty: the walker sets the stop flag (lines 428-432).
WalkDone ==
    /\ pc = "walk"
    /\ stack = <<>>
    /\ stop' = TRUE
    /\ pc' = "drain"
    /\ UNCHANGED <<world, opts, rec, recorded_inodes, deleted_vertices, contents,
                   stack, work, ret, result, hist, lineSt, workers>>

\* The state after the task w is taken from the queue and
\* record_existing_file has left the builder as B.
DrainApply(w, B) ==
    /\ SetBuilder(B)
    /\ work' = Tail(work)
    /\ IF B.err # "ok"
       THEN /\ Returns(B, B.err)
            /\ hist' = [hist EXCEPT
                          !.proc = Append(@, [task |-> w, stack_empty |-> stack = <<>>,
                                              stop |-> stop,
                                              contents0 |-> Len(contents),
                                              contents1 |-> Len(B.contents),
                                              by |-> 0]),
                          !.failed = @ \cup (hist.rec0 + 1 .. Len(B.rec))]
       ELSE /\ pc' = "drain"
            /\ ret' = ret
            /\ hist' = [hist EXCEPT
                          !.proc = Append(@, [task |-> w, stack_empty |-> stack = <<>>,
                                              stop |-> stop,
                                              contents0 |-> Len(contents),
                                              contents1 |-> Len(B.contents),
                                              by |-> 0])]

\* One iteration of the drain loop (lines 433-455) on a non-empty queue.
DrainStep ==
    /\ pc = "drain"
    /\ work # <<>>
    /\ DrainApply(Head(work),
                  record_existing_file(Builder, Head(work).rec, Head(work).item,
                                       Head(work).new_papa, Head(work).vertex))
    /\ UNCHANGED <<world, opts, stack, stop, result, lineSt, workers>>

\* The queue is empty: the loop breaks and, every worker being joined (there
\* is none to join when the pool is empty), record returns Ok.
RecordReturn ==
    /\ pc = "drain"
    /\ work = <<>>
    /\ \A t \in DOMAIN workers : workers[t].joined
    /\ pc' = "idle"
    /\ ret' = "Ok"
    /\ UNCHANGED <<world, opts, rec, recorded_inodes, deleted_vertices, contents,
                   stack, work, stop, result, hist, lineSt, workers>>

\* Builder::finish
Finish ==
    /\ pc = "idle"
    /\ result' = finish(rec)
    /\ pc' = "done"
    /\ UNCHANGED <<world, opts, rec, recorded_inodes, deleted_vertices, contents,
                   stack, work, stop, ret, hist, lineSt, workers>>

Next == RecordStart \/ WalkStep \/ WalkDone \/ DrainStep \/ RecordReturn \/ Finish

Spec == Init /\ [][Next]_vars

(***************************************************************************)
(* The worker pool (record.rs, lines 302-338 and 456-464).  The source     *)
(* spawns no worker (the range of line 302 is 0..0); this specification    *)
(* runs the loop of lines 306-334 in up to MaxWorkers threads, next to the *)
(* walker and the drain loop.  A thread holds the queue's lock while it    *)
(* pops and reads the stop flag, and the lock of the record while it       *)
(* processes a tuple.  The threads of a call that returned an error are    *)
(* followed until the next call replaces the queue.                        *)
(***************************************************************************)
Exited == {"stopped", "failed", "panicked"}

\* Lines 307-311: the thread pops the head of a non-empty queue.
WorkerPop(t) ==
    /\ pc \in {"walk", "drain", "idle"}
    /\ workers[t].st = "loop"
    /\ work # <<>>
    /\ workers' = [workers EXCEPT ![t].st = "got", ![t].task = <<Head(work)>>]
    /\ work' = Tail(work)
    /\ UNCHANGED <<world, opts, rec, recorded_inodes, deleted_vertices, contents,
                   stack, stop, pc, ret, result, hist, lineSt>>

\* The state after the thread t has run record_existing_file on the tuple w
\* and left the builder as B: back to the head of the loop, or out of it
\* with the error (the ? of line 323) or by a panic.
WorkerApply(t, w, B) ==
    /\ SetBuilder(B)
    /\ workers' = [workers EXCEPT
                     ![t].st = IF B.err = "ok" THEN "loop"
                               ELSE IF B.err \in Panics THEN "panicked" ELSE "failed",
                     ![t].task = <<>>,
                     ![t].err = B.err]
    /\ hist' = [hist EXCEPT
                  !.proc = Append(@, [task |-> w, stack_empty |-> stack = <<>>,
                                      stop |-> stop,
                                      contents0 |-> Len(contents),
                                      contents1 |-> Len(B.contents),
                                      by |-> t])]

\* Lines 312-323: the thread processes the tuple it holds.
WorkerProcess(t) ==
    /\ pc \in {"walk", "drain", "idle"}
    /\ workers[t].st = "got"
    /\ WorkerApply(t, workers[t].task[1],
                   record_existing_file(Builder, workers[t].task[1].rec,
                                        workers[t].task[1].item,
                                        workers[t].task[1].new_papa,
                                        workers[t].task[1].vertex))
    /\ UNCHANGED <<world, opts, stack, work, stop, pc, ret, result, lineSt>>

\* A thread that leaves its loop on an empty queue, whatever the stop flag.
WorkerStop_without_flag(t) ==
    /\ pc \in {"walk", "drain", "idle"}
    /\ workers[t].st = "loop"
    /\ work = <<>>
    /\ workers' = [workers EXCEPT ![t].st = "stopped"]
    /\ UNCHANGED <<world, opts, rec, recorded_inodes, deleted_vertices, contents,
                   stack, work, stop, pc, ret, result, hist, lineSt>>

\* Lines 324-326: the queue is empty and the stop flag is set, the thread
\* breaks out of its loop.  (With the flag down it parks and tries again,
\* lines 327-330: no change of state.)
WorkerStop(t) ==
    /\ pc \in {"walk", "drain", "idle"}
    /\ workers[t].st = "loop"
    /\ work = <<>>
    /\ stop
    /\ workers' = [workers EXCEPT ![t].st = "stopped"]
    /\ UNCHANGED <<world, opts, rec, recorded_inodes, deleted_vertices, contents,
                   stack, work, stop, pc, ret, result, hist, lineSt>>

\* Lines 456-464: after its own loop the main thread joins the workers in
\* the order of their creation.  The error of a worker is returned by
\* record; the panic of a worker is logged and dropped.
JoinWorker(t) ==
    /\ pc = "drain"
    /\ work = <<>>
    /\ ~workers[t].joined
    /\ \A u \in 1..t - 1 : workers[u].joined
    /\ workers[t].st \in Exited
    /\ workers' = [workers EXCEPT ![t].joined = TRUE]
    /\ IF workers[t].st = "failed"
       THEN /\ Returns(Builder, workers[t].err)
            /\ hist' = [hist EXCEPT !.failed = @ \cup (hist.rec0 + 1 .. Len(rec))]
       ELSE UNCHANGED <<pc, ret, hist>>
    /\ UNCHANGED <<world, opts, rec, recorded_inodes, deleted_vertices, contents,
                   stack, work, stop, result, lineSt>>

\* A session whose calls of record spawn n threads, n in 0..MaxWorkers, on a
\* repository that holds the directory and both files, each under one name:
\* the queue gets up to three tuples.
InitWorkers ==
    /\ world \in {MakeWorld(p) : p \in {q \in WorldParams :
                     /\ WellFormed(q)
                     /\ q.gA = "live" /\ q.gB # "new" /\ q.gX = "live"
                     /\ q.n2 = "none" /\ ~q.mvX /\ ~q.mvO /\ ~q.cyc /\ ~q.noMt /\ ~q.eX /\ ~q.undec
                     /\ q.pB = 0 /\ q.mB = 3}}
    /\ opts \in [force_rediff : BOOLEAN, ignore_missing : BOOLEAN]
    /\ rec = <<>>
    /\ recorded_inodes = EmptyMap
    /\ deleted_vertices = {}
    /\ contents = <<>>
    /\ stack = <<>>
    /\ work = <<>>
    /\ stop = FALSE
    /\ pc = "idle"
    /\ ret = "none"
    /\ result = NoResult
    /\ hist = Hist0
    /\ lineSt = LineOff
    /\ \E n \in 0..MaxWorkers :
          workers = [t \in 1..n |-> [WorkerSpawned EXCEPT !.st = "unspawned"]]

NextWorkers ==
    \/ RecordStart \/ WalkStep \/ WalkDone \/ DrainStep \/ RecordReturn \/ Finish
    \/ \E t \in DOMAIN workers : WorkerPop(t)
    \/ \E t \in DOMAIN workers : WorkerProcess(t)
    \/ \E t \in DOMAIN workers : WorkerStop(t)
    \/ \E t \in DOMAIN workers : JoinWorker(t)

SpecWorkers == InitWorkers /\ [][NextWorkers]_vars

(***************************************************************************)
(* The line model on its own: the two buffers are drawn from bounded sets  *)
(* and make_old_lines / make_new_lines are applied to them.                *)
(***************************************************************************)
Bytes == {1, NL}

Bufs == UNION {[1..n -> Bytes] : n \in 0..MaxBuf}

Markers == {[x \in S |-> EndMarker] : S \in {{}} \cup {{k} : k \in 1..MaxBuf + 1}}

\* The sorted vectors of at most two byte ranges.
ByteRanges == UNION {{<<s, e>> : s \in 0..e - 1} : e \in 1..MaxBuf}

CyclicRanges ==
    {<<>>} \cup {<<r>> : r \in ByteRanges}
    \cup {p \in {<<q, r>> : q \in ByteRanges, r \in ByteRanges} :
              \/ p[1][1] < p[2][1]
              \/ p[1][1] = p[2][1] /\ p[1][2] < p[2][2]}

InitLine ==
    /\ world = MakeWorld([gA |-> "live", wA |-> TRUE, gB |-> "live", wB |-> "same",
                          nB |-> "b", pB |-> 0, mB |-> 3, gX |-> "live", wX |-> TRUE,
                          bad |-> FALSE, undec |-> FALSE, psB |-> FALSE,
                          mvX |-> FALSE, mvO |-> FALSE, cyc |-> FALSE, noMt |-> FALSE,
                          eX |-> FALSE,
                          n2 |-> "none", d2 |-> "live"])
    /\ opts = [force_rediff |-> FALSE, ignore_missing |-> FALSE]
    /\ rec = <<>>
    /\ recorded_inodes = EmptyMap
    /\ deleted_vertices = {}
    /\ contents = <<>>
    /\ stack = <<>>
    /\ work = <<>>
    /\ stop = FALSE
    /\ pc = "lines"
    /\ ret = "none"
    /\ result = NoResult
    /\ hist = Hist0
    /\ workers = <<>>
    /\ \E d \in [contents_a : Bufs, cyclic_conflict_bytes : CyclicRanges,
                 marker : Markers], b \in Bufs :
          lineSt = [phase |-> "input", d |-> d, b |-> b, old |-> <<>>, new |-> <<>>,
                    span |-> [of |-> "none", i |-> 0, n |-> 0,
                              out |-> [ok |-> TRUE, v |-> 0]]]

MakeOldLines ==
    /\ lineSt.phase = "input"
    /\ lineSt' = [lineSt EXCEPT !.phase = "old", !.old = make_old_lines(lineSt.d)]
    /\ UNCHANGED builderVars

MakeNewLines ==
    /\ lineSt.phase = "old"
    /\ lineSt' = [lineSt EXCEPT !.phase = "lines", !.new = make_new_lines(lineSt.b)]
    /\ UNCHANGED builderVars

\* bytes_len(chunks, i, n) of one of the two line arrays, for i + n <=
\* chunks.len().
BytesLen ==
    /\ lineSt.phase = "lines"
    /\ \E of \in {"old", "new"} :
         LET chunks == IF of = "old" THEN lineSt.old ELSE lineSt.new IN
         \E i \in 0..Len(chunks) : \E n \in 0..Len(chunks) - i :
            lineSt' = [lineSt EXCEPT !.phase = "span",
                                     !.span = [of |-> of, i |-> i, n |-> n,
                                               out |-> bytes_len(chunks, i, n)]]
    /\ UNCHANGED builderVars

NextLine == MakeOldLines \/ MakeNewLines \/ BytesLen

SpecLine == InitLine /\ [][NextLine]_vars

(***************************************************************************)
(* Properties of the recording session (specification Spec).               *)
(***************************************************************************)
\* The number of updatables entries of the per-file records.
UpdatablesCount(rs) ==
    SeqSum([i \in 1..Len(rs) |-> Cardinality(DOMAIN rs[i].updatables)])

\* The number of actions of the records before the i-th one.
ActionsBefore(rs, i) == SeqSum([j \in 1..i - 1 |-> Len(rs[j].actions)])

\* C1: after Builder::finish of a session whose calls all returned Ok, every key of the merged updatables is an index
\* of the merged actions (key < actions.len()), and no two entries of the
\* per-file records land on the same merged key (none is overwritten).
C1_DenseInjective ==
    (pc = "done" /\ hist.failed = {}) =>
        /\ \A k \in DOMAIN result.updatables : k < Len(result.actions)
        /\ Cardinality(DOMAIN result.updatables) = UpdatablesCount(rec)

\* The entry u under key k of the record r is keyed by the index of its hunk:
\* indices count from 0, so the hunk is the (k + 1)-th of r.actions.
KeyedByHunk(r, k) ==
    /\ k + 1 \in 1..Len(r.actions)
    /\ r.updatables[k].t = "Add" =>
          /\ r.actions[k + 1].t = "FileAdd"
          /\ r.actions[k + 1].add_inode.start = r.updatables[k].pos
    /\ r.updatables[k].t = "Deleted" => r.actions[k + 1].t = "FileDel"

\* C2: every updatables entry of a record is keyed by the index of the hunk
\* that performs the update: Add by the index of its FileAdd (0 when it is
\* the first hunk), Deleted by the index of its FileDel.
C2_KeyedByHunkIndex ==
    (pc = "idle" /\ ret = "Ok") =>
        \A i \in 1..Len(rec) : \A k \in DOMAIN rec[i].updatables :
            KeyedByHunk(rec[i], k)

\* C3: finish returns the concatenation of the records' actions in creation
\* order, and every entry under key k of the i-th record is in the result,
\* with the same value, under k plus the number of actions of the records
\* before it.
C3_FinishRebases ==
    pc = "done" =>
        /\ result.actions = Concat([i \in 1..Len(rec) |-> rec[i].actions])
        /\ \A i \in 1..Len(rec) : \A k \in DOMAIN rec[i].updatables :
              /\ k + ActionsBefore(rec, i) \in DOMAIN result.updatables
              /\ result.updatables[k + ActionsBefore(rec, i)] = rec[i].updatables[k]

\* C4: when record returns an error, no hunk and no updatables entry the
\* failed call produced is left in the Builder's records, so that finish
\* then yields no action of the failed call.
C4_NoPartialRecord ==
    /\ (pc = "idle" /\ ret \notin {"none", "Ok"}) =>
          \A i \in hist.rec0 + 1..Len(rec) :
              rec[i].actions = <<>> /\ rec[i].updatables = EmptyMap
    /\ pc = "done" =>
          Len(result.actions) =
              Len(Concat([i \in 1..Len(rec) |->
                             IF i \in hist.failed THEN <<>> ELSE rec[i].actions]))

\* The offset p of the contents buffer lies in a vertex some hunk adds.
Referenced(p) ==
    \E i \in 1..Len(rec) : \E h \in Range(rec[i].actions) :
        h.t = "FileAdd" /\
        \E a \in {h.add_name, h.add_inode, h.contents} :
            a.t = "NewVertex" /\ a.start <= p /\ p <= a.end

\* C5: with ignore_missing unset, once add_file has failed the call of record
\* is over with a WorkingCopy error (the walker does not go on to the next
\* stack item), and no byte the failed add_file wrote is left in the contents
\* buffer unreferenced.
C5_NeverSwallows ==
    (~opts.ignore_missing /\ hist.add_failed) =>
        /\ pc = "idle" /\ ret = "WorkingCopy"
        /\ \A p \in hist.orphan : p > Len(contents) \/ Referenced(p)

\* The tuples processed so far are the first tuples enqueued, in order, each
\* taken with the stack empty and the stop flag set.
DrainedInOrder ==
    /\ Len(hist.proc) <= Len(hist.enq)
    /\ \A i \in 1..Len(hist.proc) :
          /\ hist.proc[i].task = hist.enq[i]
          /\ hist.proc[i].stack_empty
          /\ hist.proc[i].stop
    /\ \A i, j \in 1..Len(hist.enq) : i # j => hist.enq[i] # hist.enq[j]
    /\ hist.enq = SubSeq(hist.enq, 1, Len(hist.proc)) \o work

\* C6 (as stated): every tuple the walker enqueues is processed exactly once,
\* in FIFO order, after the stack is empty and stop is set, whatever record
\* returns; and the queue is empty when record returns Ok.
C6_EveryTupleProcessed ==
    /\ DrainedInOrder
    /\ (pc = "idle" /\ ret # "none") => Len(hist.proc) = Len(hist.enq)
    /\ (pc = "idle" /\ ret = "Ok") => work = <<>>

\* C6 (amended): tuples are processed at most once, in FIFO order, only with
\* the stack empty and stop set; when record returns Ok every enqueued tuple
\* has been processed and the queue is empty.
C6_DrainAfterWalk ==
    /\ DrainedInOrder
    /\ (pc = "idle" /\ ret = "Ok") => (Len(hist.proc) = Len(hist.enq) /\ work = <<>>)

\* A call of record has returned Ok after draining two tuples.
C6_Witness == pc = "idle" /\ ret = "Ok" /\ Len(hist.proc) >= 2

\* The graph state of the file of the task w matches the working copy: one
\* name, alive, under the parent the walker found it in, with the same
\* basename and metadata, and for a regular file the same content.
Matches(w) ==
    LET names == iter_adjacent(inode_vertex(w.vertex), {FOLDER, PARENT}, AllFlags)
        name_dest == find_block_end(names[1].dest)
        parents == iter_adjacent(name_dest, {FOLDER, PARENT}, AllFlags)
        fm == get_file_meta(name_dest)
    IN /\ Len(names) = 1 /\ DELETED \notin names[1].flag
       /\ Len(parents) = 1 /\ DELETED \notin parents[1].flag
       /\ parents[1].dest = w.item.v_papa
       /\ w.new_papa = w.item.v_papa
       /\ fm.ok
       /\ fm.fm.basename = w.item.basename
       /\ fm.fm.metadata = w.item.metadata
       /\ file_metadata(w.item.full_path).ok
       /\ ~w.item.metadata.dir =>
             /\ decode_file(w.item.full_path).ok
             /\ decode_file(w.item.full_path).bytes = output_graph(w.vertex).contents_a

\* C10: record_existing_file on a file whose graph state matches the working
\* copy adds no hunk to its record and leaves the contents buffer at the
\* length it had.
C10_FixedPoint ==
    [][(DrainStep /\ Matches(Head(work))) =>
          /\ rec'[Head(work).rec].actions = <<>>
          /\ rec[Head(work).rec].actions = <<>>
          /\ Len(contents') = Len(contents)
          /\ ret' # "panic"]_vars

\* A matching regular file has been processed with force_rediff set (its
\* content was diffed), and the call returned Ok.
C10_Witness ==
    /\ pc = "idle" /\ ret = "Ok" /\ opts.force_rediff
    /\ \E i \in 1..Len(hist.proc) :
          Matches(hist.proc[i].task) /\ ~hist.proc[i].task.item.metadata.dir

(***************************************************************************)
(* Properties of line equality (specification SpecLine).                   *)
(***************************************************************************)
\* The lines of both buffers, once both are made.
Lines ==
    IF lineSt.phase = "lines" THEN Range(lineSt.old) \cup Range(lineSt.new) ELSE {}

\* C7: Line::eq is reflexive, symmetric and transitive on the lines of the
\* old and the new buffer.
C7_Equivalence ==
    \A x, y, z \in Lines :
        /\ eq(x, x)
        /\ eq(x, y) => eq(y, x)
        /\ (eq(x, y) /\ eq(y, z)) => eq(x, z)

\* C8: two lines whose cyclic bits differ never compare equal.
C8_CyclicSeparates ==
    \A x, y \in Lines : x.cyclic # y.cyclic => ~eq(x, y)

\* y is x followed by a newline, x before an end marker, same cyclic bits.
Bridged(x, y) ==
    /\ x.cyclic = y.cyclic
    /\ x.before_end_marker
    /\ y.l = Append(x.l, NL)

\* C9 (as stated): a line before an end marker equals every line with the
\* same cyclic bit whose bytes are its bytes followed by a newline.
C9_Bridge ==
    \A x, y \in Lines : Bridged(x, y) => eq(x, y)

\* C9 (amended): ... provided the other line is not the last line of its
\* buffer; then the two are equal, whichever side is asked.
C9_BridgeNotLast ==
    \A x, y \in Lines : (Bridged(x, y) /\ ~y.last) => (eq(x, y) /\ eq(y, x))

\* Both buffers are made, with a line before an end marker in the old one
\* and its newline-terminated, non-final counterpart in the new one.
C9_Witness ==
    \E x, y \in Lines : Bridged(x, y) /\ ~y.last /\ x.l # <<>>

(***************************************************************************)
(* Properties of the contents buffer and of the emitted atoms (Spec).      *)
(***************************************************************************)
\* The atoms of a hunk, in the order the hunk lists them.
AtomsOf(h) ==
    CASE h.t = "FileAdd" -> <<h.add_name, h.add_inode, h.contents>>
      [] h.t = "FileDel" -> <<h.del, h.contents>>
      [] h.t = "FileMove" -> <<h.del, h.add>>
      [] h.t = "FileUndel" -> <<h.undel, h.contents>>
      [] h.t = "SolveNameConflict" -> <<h.name>>
      [] h.t = "Edit" -> <<h.change>>
      [] h.t = "Replace" -> <<h.change, h.replacement>>

\* The atoms of all the records rs, in record and hunk order.
AllAtoms(rs) ==
    Concat([i \in 1..Len(rs) |->
              Concat([k \in 1..Len(rs[i].actions) |-> AtomsOf(rs[i].actions[k])])])

\* C11: every step leaves the bytes the contents buffer held in place (it
\* appends, or cuts back exactly what the same call had written), and every
\* NewVertex of every record keeps its range [start, end) inside the buffer.
C11_AppendOnly ==
    [][/\ Len(contents') >= Len(contents)
       /\ SubSeq(contents', 1, Len(contents)) = contents
       /\ \A a \in Range(AllAtoms(rec')) :
             a.t = "NewVertex" => (a.start <= a.end /\ a.end <= Len(contents'))]_vars

\* record_moved_file has abandoned its metadata write (the file's record has
\* no hunk) in a call in which add_file had appended bytes before.
C11_Witness ==
    /\ Len(contents) > hist.contents0
    /\ \E a \in Range(AllAtoms(rec)) : a.t = "NewVertex"
    /\ \E i \in 1..Len(hist.proc) :
          /\ file_metadata(hist.proc[i].task.item.full_path).ok
          /\ rec[hist.proc[i].task.rec].actions = <<>>

\* The edges of all the EdgeMap atoms of the records rs.
AllNewEdges(rs) ==
    UNION {Range(a.edges) : a \in {x \in Range(AllAtoms(rs)) : x.t = "EdgeMap"}}

\* C12: no NewEdge of any record carries PSEUDO in its previous or in its
\* flag set.
C12_NoPseudo ==
    \A e \in AllNewEdges(rec) : PSEUDO \notin e.previous /\ PSEUDO \notin e.flag

\* The position p names a vertex of the graph the record started from.
InOldGraph(p) ==
    \E v \in Vertices : v.change = p.change /\ (v.start = p.pos \/ v.end = p.pos)

\* The folder-level NewVertex atoms: those of add_file and record_moved_file.
IsFolderVertex(a) == a.t = "NewVertex" /\ FOLDER \in a.flag

\* Every context of the folder-level NewVertex atoms of the list as names the
\* old graph, or the end (up) or start (down) of a NewVertex before it.
ContextsResolved(as) ==
    \A k \in 1..Len(as) :
       IsFolderVertex(as[k]) =>
          /\ \A p \in Range(as[k].up_context) :
                \/ p.change # NoChange /\ InOldGraph(p)
                \/ p.change = NoChange
                   /\ \E j \in 1..k - 1 : as[j].t = "NewVertex" /\ as[j].end = p.pos
          /\ \A p \in Range(as[k].down_context) :
                \/ p.change # NoChange /\ InOldGraph(p)
                \/ p.change = NoChange
                   /\ \E j \in 1..k - 1 : as[j].t = "NewVertex" /\ as[j].start = p.pos

RECURSIVE OutsideTree(_, _)
OutsideTree(dir, comps) ==
    IF comps = <<>> THEN FALSE
    ELSE LET ts == {t \in world.tree : t.parent = dir /\ t.basename = Head(comps)}
         IN IF ts = {} THEN TRUE
            ELSE OutsideTree((CHOOSE t \in ts : TRUE).inode, Tail(comps))

\* C14: a call of record whose prefix has a component that matches no child
\* of the directory reached so far, and that no other error has ended, does
\* not succeed: it returns PathNotInRepo.
C14_PathNotInRepo ==
    (pc = "idle" /\ hist.calls > 0 /\ OutsideTree(InodeROOT, hist.prefix))
        => ret # "Ok"

\* The comparison of the modification time of the file fails: the time cannot
\* be read, or it lies before the UNIX epoch.
MtimeFails(path) ==
    /\ world.wc[path].exists
    /\ ~world.wc[path].mtime_ok \/ world.wc[path].mtime < UnixEpoch

\* The record r holds a content hunk of the file.
HasContentHunk(r, path) ==
    \E h \in Range(r.actions) : h.t \in {"Edit", "Replace"} /\ h.path = path

\* C15: once an existing regular file whose modification-time comparison
\* fails has been processed, record has not failed with the time error, and
\* the file was diffed: its edit is in its record.
C15_MtimeFailureIsModified ==
    \A i \in 1..Len(hist.proc) :
       LET t == hist.proc[i].task IN
       (~t.item.metadata.dir /\ MtimeFails(t.item.full_path))
          => /\ ret # "SystemTime"
             /\ world.wc[t.item.full_path].content = NewBytes
                   => HasContentHunk(rec[t.rec], t.item.full_path)

(***************************************************************************)
(* Scenarios on the file "b" (inode 2).                                    *)
(***************************************************************************)
PathB == <<"b">>

\* The file "b" has one name in the graph, alive on both of its folder edges.
SingleLiveName ==
    /\ Len(iter_adjacent(Iv(2), {PARENT}, AllFlags)) = 1
    /\ iter_adjacent(Iv(2), {PARENT}, AllFlags)[1].flag = {FOLDER, BLOCK, PARENT}
    /\ Len(iter_adjacent(Nm(2), {PARENT}, AllFlags)) = 1
    /\ iter_adjacent(Nm(2), {PARENT}, AllFlags)[1].flag = {FOLDER, BLOCK, PARENT}

\* "b" is in the working copy with the metadata of the graph, a readable
\* modification time after the epoch, and its name can be read from the
\* change store.
SameMetadata ==
    /\ world.wc[PathB].exists
    /\ world.wc[PathB].meta = world.meta[2].metadata
    /\ ~MtimeFails(PathB)
    /\ Nm(2) \notin world.badmeta

\* Rename only: the graph knows the file under another basename.
RenameOnly ==
    /\ world.inodes[2] # NoPos
    /\ SingleLiveName
    /\ SameMetadata
    /\ world.meta[2].basename # "b"
    /\ world.wc[PathB].content = OldBytes

\* The tasks of inode 2 that the drain loop has processed.
ProcessedB == {i \in 1..Len(hist.proc) : hist.proc[i].task.item.inode = 2}

\* The record of the processed task i holds exactly one hunk: a FileMove that
\* marks the edge e DELETED and adds the name "b" between the root and the
\* inode vertex.
OnlyFileMove(i, e) ==
    LET as == rec[hist.proc[i].task.rec].actions IN
    /\ Len(as) = 1
    /\ as[1].t = "FileMove"
    /\ as[1].del.edges = <<e>>
    /\ as[1].add.t = "NewVertex"
    /\ as[1].add.up_context = <<PositionROOT>>
    /\ as[1].add.down_context = <<start_pos(Iv(2))>>
    /\ SubSeq(contents, as[1].add.start + 1, as[1].add.end)
          = FileMetadataWrite(FileMeta(world.wc[PathB].meta, "b", "utf8"))

\* C16 (as stated): a rename alone yields one hunk, a FileMove that marks the
\* folder edge between the old name vertex and the inode vertex DELETED and
\* adds the new name; no content hunk.
C16_RenameDeletesInodeEdge ==
    RenameOnly =>
       \A i \in ProcessedB :
          OnlyFileMove(i, NewEdge({FOLDER, BLOCK}, {FOLDER, BLOCK, DELETED},
                                  end_pos(Nm(2)), Iv(2), 2))

\* C16 (amended): a rename alone yields one hunk, a FileMove that marks the
\* folder edge from the parent directory to the old name vertex DELETED and
\* adds the new name (up-context the parent directory, down-context the inode
\* vertex); no content hunk.
C16_RenameDeletesNameEdge ==
    RenameOnly =>
       \A i \in ProcessedB :
          OnlyFileMove(i, NewEdge({FOLDER, BLOCK}, {FOLDER, BLOCK, DELETED},
                                  PositionROOT, Nm(2), 2))

\* The renamed file has been processed and record has returned Ok.
C16_Witness == RenameOnly /\ ProcessedB # {} /\ pc = "idle" /\ ret = "Ok"

\* The name vertex of "b" has DELETED on both of its folder edges, and the
\* working copy holds the file again under the same parent, basename and
\* metadata.
Undeleted ==
    /\ world.inodes[2] # NoPos
    /\ \E e \in world.graph : e.v = Nm(2) /\ {FOLDER, PARENT, DELETED} \subseteq e.flag
    /\ \E e \in world.graph : e.v = Iv(2) /\ {FOLDER, PARENT, DELETED} \subseteq e.flag
    /\ SameMetadata
    /\ world.meta[2].basename = "b"

\* The hunks of all the records, in order, and those of them of the path.
AllHunks == Concat([i \in 1..Len(rec) |-> rec[i].actions])

IsOfPath(h, path) == h.path = path

HunksOfB == SelectSeq(AllHunks, LAMBDA h : IsOfPath(h, PathB))

\* The edge from -> to is among es, with DELETED before and not after.
ClearsDeleted(es, from, to) ==
    \E e \in Range(es) :
       /\ e.from = from /\ e.to = to
       /\ DELETED \in e.previous /\ DELETED \notin e.flag

\* C17: recording the whole repository in which "b" is undeleted under its
\* old name yields exactly one hunk for it, a FileUndel that clears DELETED on
\* both folder edges; no NewVertex is emitted and the contents buffer is as
\* long as it was before the call.
C17_Undelete ==
    (Undeleted /\ pc = "idle" /\ ret = "Ok" /\ hist.calls = 1 /\ hist.prefix = <<>>)
       => /\ Len(HunksOfB) = 1
          /\ HunksOfB[1].t = "FileUndel"
          /\ ClearsDeleted(HunksOfB[1].undel.edges, PositionROOT, Nm(2))
          /\ ClearsDeleted(HunksOfB[1].undel.edges, end_pos(Nm(2)), Iv(2))
          /\ \A a \in Range(AllAtoms(rec)) : a.t # "NewVertex"
          /\ Len(contents) = hist.contents0

(***************************************************************************)
(* Recursive deletion of the directory "a" (inode 1) and of "a/x" (3).     *)
(***************************************************************************)
PathOf(i) == IF i = 1 THEN <<"a">> ELSE <<"a", "x">>

\* The directory and the file under it are alive in the graph, the file is
\* recorded under the directory, and both are absent from the working copy.
DirectoryGone ==
    /\ world.inodes[1] # NoPos /\ world.inodes[3] # NoPos
    /\ \E e \in world.graph : e.v = Nm(3) /\ PARENT \in e.flag /\ e.dest = end_pos(Iv(1))
    /\ ~file_metadata(inode_filename(1).path).ok
    /\ ~file_metadata(inode_filename(3).path).ok

\* Some edge of es marks the edge from -> to DELETED.
MarksDeleted(es, from, to) ==
    \E e \in Range(es) : e.from = from /\ e.to = to /\ DELETED \in e.flag

\* The edges into v that a deletion has to mark: not PSEUDO, with all of
\* must and none of mustnot.
EdgesInto(v, must, mustnot) ==
    {e \in world.graph : /\ e.v = v /\ must \subseteq e.flag
                         /\ PSEUDO \notin e.flag /\ e.flag \cap mustnot = {}}

\* The content vertices of inode i.
ContentOf(i) == {v \in Vertices : v.change = i /\ v.start # v.end /\ v # Nm(i)}

\* The FileDel hunks of the inode vertex of inode i.
IsFileDelOf(h, i) == h.t = "FileDel" /\ h.del.inode = start_pos(Iv(i))

FileDelsOf(i) == SelectSeq(AllHunks, LAMBDA h : IsFileDelOf(h, i))

\* C18: when the directory and the file under it are gone from the working
\* copy, a successful record of the whole repository holds one FileDel per
\* inode vertex, whose del marks DELETED every non-PSEUDO FOLDER|PARENT edge
\* into the inode vertex; the hunk of the file carries a contents EdgeMap
\* that marks DELETED every alive non-PSEUDO PARENT edge into its content.
C18_RecursiveDeletion ==
    (DirectoryGone /\ pc = "idle" /\ ret = "Ok" /\ hist.calls = 1 /\ hist.prefix = <<>>)
       => /\ \A i \in {1, 3} :
                /\ Len(FileDelsOf(i)) = 1
                /\ \A e \in EdgesInto(Iv(i), {FOLDER, PARENT}, {}) :
                      MarksDeleted(FileDelsOf(i)[1].del.edges, e.dest, Iv(i))
          /\ FileDelsOf(1)[1].contents = NoAtom
          /\ FileDelsOf(3)[1].contents.t = "EdgeMap"
          /\ \A v \in ContentOf(3) :
                \A e \in EdgesInto(v, {PARENT}, {DELETED}) :
                   MarksDeleted(FileDelsOf(3)[1].contents.edges, e.dest, v)

\* The directory and its file were gone and the record has returned Ok.
C18_Witness ==
    /\ DirectoryGone /\ pc = "idle" /\ ret = "Ok" /\ hist.calls = 1
    /\ hist.prefix = <<>>
    /\ Len(FileDelsOf(3)) = 1
    /\ FileDelsOf(3)[1].contents.t = "EdgeMap"

(***************************************************************************)
(* The order of the hunks of a file that is renamed and edited.            *)
(***************************************************************************)
FolderLevel(h) == h.t \in {"FileMove", "FileUndel", "SolveNameConflict"}

ContentLevel(h) == h.t \in {"Edit", "Replace"}

\* C19: in every record the folder-level hunks (FileMove, FileUndel,
\* SolveNameConflict) come before the content hunks, and a content hunk that
\* replaces lines lists the deletion before the new vertex.
C19_FolderBeforeContent ==
    \A i \in 1..Len(rec) :
       LET as == rec[i].actions IN
       \A j, k \in 1..Len(as) :
          /\ (FolderLevel(as[j]) /\ ContentLevel(as[k])) => j < k
          /\ as[k].t = "Replace"
                => /\ AtomsOf(as[k])[1].t = "EdgeMap"
                   /\ AtomsOf(as[k])[2].t = "NewVertex"
                   /\ \A e \in Range(as[k].change.edges) : DELETED \in e.flag

\* "b" was renamed and edited, and its record holds the move and the edit.
C19_Witness ==
    /\ world.inodes[2] # NoPos /\ SingleLiveName /\ SameMetadata
    /\ world.meta[2].basename # "b"
    /\ world.wc[PathB].content = NewBytes
    /\ \E i \in ProcessedB :
          LET as == rec[hist.proc[i].task.rec].actions IN
          /\ Len(as) = 2
          /\ as[1].t = "FileMove"
          /\ as[2].t = "Replace"

(***************************************************************************)
(* oldest_change after Builder::finish.                                    *)
(***************************************************************************)
\* The files with a readable modification time of which the result holds a
\* content hunk.
DiffedFiles ==
    {path \in AllPaths :
        /\ modified_time(path).ok
        /\ \E h \in Range(result.actions) : ContentLevel(h) /\ IsOfPath(h, path)}

\* C20: after finish, oldest_change is the least modification time of the
\* files whose diff produced a content hunk, and the UNIX epoch when there is
\* none.
C20_OldestChange ==
    pc = "done" =>
       IF DiffedFiles = {} THEN result.oldest_change = UnixEpoch
       ELSE /\ \E path \in DiffedFiles : result.oldest_change = modified_time(path).t
            /\ \A path \in DiffedFiles : result.oldest_change <= modified_time(path).t

(***************************************************************************)
(* Deduplication of the recursive deletion walks.                          *)
(***************************************************************************)
\* The Deleted updates of inode i in the record r.
DeletedUpdates(r, i) ==
    {k \in DOMAIN r.updatables : r.updatables[k] = [t |-> "Deleted", inode |-> i]}

\* The number of Deleted updates of inode i in the records rs.
RECURSIVE CountDeleted(_, _)
CountDeleted(rs, i) ==
    IF rs = <<>> THEN 0
    ELSE Cardinality(DeletedUpdates(Head(rs), i)) + CountDeleted(Tail(rs), i)

\* C21: over the whole session every inode vertex has at most one FileDel
\* hunk and every inode at most one Deleted update.
C21_DeletedOnce ==
    \A i \in Inodes : Len(FileDelsOf(i)) <= 1 /\ CountDeleted(rec, i) <= 1

\* The directory was deleted by the walk of delete_obsolete_children, and
\* push_children has started a second walk on it, in a record of its own.
C21_Witness ==
    /\ DirectoryGone /\ ~opts.ignore_missing
    /\ pc = "idle" /\ ret = "Ok" /\ hist.prefix = <<>>
    /\ Len(FileDelsOf(1)) = 1 /\ CountDeleted(rec, 1) = 1
    /\ \E k \in 1..Len(rec) : rec[k].actions = <<>>

(***************************************************************************)
(* collect_moved_edges on the tuples the drain loop has processed.         *)
(***************************************************************************)
\* The calls of collect_moved_edges that the processed tuples stand for.
MoveCalls ==
    {[parent_pos |-> hist.proc[i].task.new_papa,
      current_pos |-> hist.proc[i].task.vertex,
      new_meta |-> hist.proc[i].task.item.metadata,
      name |-> hist.proc[i].task.item.basename] : i \in 1..Len(hist.proc)}

MovedOf(c) == collect_moved_edges(c.parent_pos, c.current_pos, c.new_meta, c.name)

\* The (name edge, grandparent edge) pairs around the inode vertex, in the
\* order of the two loops of collect_moved_edges.
TriplesOf(c) ==
    LET ps == iter_adjacent(inode_vertex(c.current_pos), {FOLDER, PARENT}, AllFlags)
    IN Concat([k \in 1..Len(ps) |->
                 LET gs == iter_adjacent(find_block_end(ps[k].dest), {FOLDER, PARENT},
                                         AllFlags)
                 IN [j \in 1..Len(gs) |-> [parent |-> ps[k], gp |-> gs[j]]]])

\* The triple has the new parent position, basename and metadata.
TripleMatches(t, c) ==
    LET fm == get_file_meta(find_block_end(t.parent.dest)) IN
    /\ fm.ok
    /\ t.gp.dest = c.parent_pos
    /\ fm.fm.basename = c.name
    /\ fm.fm.metadata = c.new_meta

\* C22 (as stated): need_new_name is false exactly when some triple around
\* the inode vertex has the new parent, basename and metadata.
C22_NeedNewNameIffMatch ==
    \A c \in MoveCalls :
       MovedOf(c).err = "ok"
          => (~MovedOf(c).need_new_name
                <=> \E k \in 1..Len(TriplesOf(c)) : TripleMatches(TriplesOf(c)[k], c))

\* C22 (amended): need_new_name is false exactly when some triple with a
\* non-PSEUDO grandparent edge has the new parent, basename and metadata, and
\* that grandparent edge is DELETED or no non-DELETED, non-PSEUDO grandparent
\* edge comes before it in the order of the loops.
C22_NeedNewNameIffFirstMatch ==
    \A c \in MoveCalls :
       MovedOf(c).err = "ok"
          => (~MovedOf(c).need_new_name
                <=> \E k \in 1..Len(TriplesOf(c)) :
                       /\ TripleMatches(TriplesOf(c)[k], c)
                       /\ PSEUDO \notin TriplesOf(c)[k].gp.flag
                       /\ \/ DELETED \in TriplesOf(c)[k].gp.flag
                          \/ \A j \in 1..k - 1 :
                                \/ DELETED \in TriplesOf(c)[j].gp.flag
                                \/ PSEUDO \in TriplesOf(c)[j].gp.flag)

\* A call with two names around the inode vertex that keeps the first alive
\* one, which has the new parent, basename and metadata.
C22_Witness ==
    \E c \in MoveCalls :
       /\ MovedOf(c).err = "ok" /\ ~MovedOf(c).need_new_name
       /\ Len(TriplesOf(c)) = 2
       /\ TripleMatches(TriplesOf(c)[1], c)
       /\ ~TripleMatches(TriplesOf(c)[2], c)

\* What record_existing_file finds around the inode vertex of a task.
NamesOf(w) ==
    ref_names(iter_adjacent(inode_vertex(w.vertex), {FOLDER, PARENT}, AllFlags),
              [former_parents |-> <<>>, is_deleted |-> TRUE, done |-> FALSE,
               err |-> "ok"])

\* The processed tasks that went through record_moved_file and got a
\* MovedEdges from collect_moved_edges.
MovedTasks ==
    {i \in 1..Len(hist.proc) :
        LET w == hist.proc[i].task IN
        /\ NamesOf(w).err = "ok"
        /\ NamesOf(w).former_parents # <<>>
        /\ file_metadata(w.item.full_path).ok
        /\ \/ Len(NamesOf(w).former_parents) > 1
           \/ NamesOf(w).former_parents[1].basename # w.item.basename
           \/ NamesOf(w).former_parents[1].metadata # w.item.metadata
           \/ NamesOf(w).former_parents[1].parent # w.item.v_papa
           \/ NamesOf(w).is_deleted
        /\ w.new_papa # NoPos
        /\ collect_moved_edges(w.new_papa, w.vertex, w.item.metadata,
                               w.item.basename).err = "ok"}

MovedEdgesOf(i) ==
    collect_moved_edges(hist.proc[i].task.new_papa, hist.proc[i].task.vertex,
                        hist.proc[i].task.item.metadata, hist.proc[i].task.item.basename)

\* The hunks of kind t that the processed task i left in its record.
HunksOfKind(i, t) ==
    SelectSeq(rec[hist.proc[i].task.rec].actions, LAMBDA h : h.t = t)

\* The serialized new name of the task i, as record_moved_file writes it.
NameBytes(i) ==
    FileMetadataWrite(FileMeta(hist.proc[i].task.item.metadata,
                               hist.proc[i].task.item.basename,
                               NamesOf(hist.proc[i].task).former_parents[1].encoding))

\* The bytes of the new name are still in the buffer where the task wrote them.
NameBytesKept(i) ==
    /\ hist.proc[i].contents1 >= hist.proc[i].contents0 + Len(NameBytes(i))
    /\ SubSeq(contents, hist.proc[i].contents0 + 1,
              hist.proc[i].contents0 + Len(NameBytes(i))) = NameBytes(i)

\* One FileUndel with resurrect, then alive, then edges when no new name is
\* needed.
OneFileUndel(i) ==
    /\ Len(HunksOfKind(i, "FileUndel")) = 1
    /\ HunksOfKind(i, "FileUndel")[1].undel
          = EdgeMap(MovedEdgesOf(i).resurrect \o MovedEdgesOf(i).alive
                       \o (IF MovedEdgesOf(i).need_new_name THEN <<>>
                           ELSE MovedEdgesOf(i).edges),
                    hist.proc[i].task.item.v_papa)

\* One FileMove pairing EdgeMap(edges) with a NewVertex over the bytes of the
\* new name, which stay in the buffer; no SolveNameConflict.
OneFileMove(i) ==
    /\ Len(HunksOfKind(i, "FileMove")) = 1
    /\ HunksOfKind(i, "SolveNameConflict") = <<>>
    /\ HunksOfKind(i, "FileMove")[1].del
          = EdgeMap(MovedEdgesOf(i).edges, hist.proc[i].task.item.v_papa)
    /\ HunksOfKind(i, "FileMove")[1].add.t = "NewVertex"
    /\ HunksOfKind(i, "FileMove")[1].add.start = hist.proc[i].contents0
    /\ HunksOfKind(i, "FileMove")[1].add.end
          = hist.proc[i].contents0 + Len(NameBytes(i))
    /\ NameBytesKept(i)

\* One SolveNameConflict carrying edges only; no FileMove; the bytes of the
\* new name are truncated.
OneSolveNameConflict(i) ==
    /\ Len(HunksOfKind(i, "SolveNameConflict")) = 1
    /\ HunksOfKind(i, "FileMove") = <<>>
    /\ HunksOfKind(i, "SolveNameConflict")[1].name
          = EdgeMap(MovedEdgesOf(i).edges, hist.proc[i].task.item.v_papa)
    /\ ~NameBytesKept(i)

\* Neither a FileMove nor a SolveNameConflict; the bytes of the new name are
\* truncated.
NoNameHunk(i) ==
    /\ HunksOfKind(i, "FileMove") = <<>>
    /\ HunksOfKind(i, "SolveNameConflict") = <<>>
    /\ ~NameBytesKept(i)

\* C23 (as stated): record_moved_file turns the MovedEdges into hunks so:
\* resurrect non-empty gives one FileUndel with resurrect, alive and (when no
\* new name is needed) edges; edges non-empty with a new name needed gives one
\* FileMove and keeps the buffer; edges non-empty with no new name needed
\* gives one SolveNameConflict with edges and truncates; otherwise no
\* FileMove, no SolveNameConflict and the buffer is truncated.
C23_MovedEdgesToHunks ==
    \A i \in MovedTasks :
       /\ MovedEdgesOf(i).resurrect # <<>> => OneFileUndel(i)
       /\ (MovedEdgesOf(i).edges # <<>> /\ MovedEdgesOf(i).need_new_name)
             => OneFileMove(i)
       /\ (MovedEdgesOf(i).edges # <<>> /\ ~MovedEdgesOf(i).need_new_name)
             => OneSolveNameConflict(i)
       /\ MovedEdgesOf(i).edges = <<>> => NoNameHunk(i)

\* C23 (amended): as above, but the SolveNameConflict is emitted only when
\* resurrect is empty; when resurrect is non-empty and no new name is needed
\* the FileUndel has taken edges, and there is no FileMove, no
\* SolveNameConflict and the buffer is truncated.
C23_EdgesGoToFileUndel ==
    \A i \in MovedTasks :
       /\ MovedEdgesOf(i).resurrect # <<>> => OneFileUndel(i)
       /\ MovedEdgesOf(i).resurrect = <<>> => HunksOfKind(i, "FileUndel") = <<>>
       /\ (MovedEdgesOf(i).edges # <<>> /\ MovedEdgesOf(i).need_new_name)
             => OneFileMove(i)
       /\ (MovedEdgesOf(i).edges # <<>> /\ ~MovedEdgesOf(i).need_new_name
              /\ MovedEdgesOf(i).resurrect = <<>>)
             => OneSolveNameConflict(i)
       /\ (\/ MovedEdgesOf(i).edges = <<>>
           \/ (~MovedEdgesOf(i).need_new_name /\ MovedEdgesOf(i).resurrect # <<>>))
             => NoNameHunk(i)

\* A processed task whose FileUndel took the edges: resurrect and edges are
\* non-empty and no new name is needed.
C23_Witness ==
    \E i \in MovedTasks :
       /\ MovedEdgesOf(i).resurrect # <<>>
       /\ MovedEdgesOf(i).edges # <<>>
       /\ ~MovedEdgesOf(i).need_new_name
       /\ OneFileUndel(i)
       /\ NoNameHunk(i)

(***************************************************************************)
(* Properties of the worker pool (specification SpecWorkers).              *)
(***************************************************************************)
\* How many times the tuple x is in the queue, in the hands of a worker, and
\* among the processed tuples.
Queued(x) == Cardinality({k \in 1..Len(work) : work[k] = x})

Held(x) == Cardinality({t \in DOMAIN workers : workers[t].task = <<x>>})

Processed(x) == Cardinality({k \in 1..Len(hist.proc) : hist.proc[k].task = x})

\* Every tuple the walker enqueued is in one place: in the queue, with one
\* worker, or processed once, by one thread.
OneThreadEach ==
    /\ \A k \in 1..Len(hist.enq) :
          Queued(hist.enq[k]) + Held(hist.enq[k]) + Processed(hist.enq[k]) = 1
    /\ \A k \in 1..Len(hist.proc) :
          /\ \E j \in 1..Len(hist.enq) : hist.enq[j] = hist.proc[k].task
          /\ hist.proc[k].by \in {0} \cup DOMAIN workers

\* record returned Ok: every enqueued tuple was popped and handed to
\* record_existing_file, and every worker is out of its loop.
OkAfterAll ==
    ret = "Ok" =>
       /\ work = <<>>
       /\ \A k \in 1..Len(hist.enq) : Processed(hist.enq[k]) = 1
       /\ \A t \in DOMAIN workers : workers[t].st \in Exited /\ workers[t].task = <<>>

\* C24 (as stated): each queued tuple is popped and processed by one thread,
\* a worker is out of its loop only after it saw the queue empty with the
\* stop flag set, and record returns Ok only after every enqueued tuple has
\* been processed.
C24_ExitOnlyOnStop ==
    /\ OneThreadEach
    /\ \A t \in DOMAIN workers :
          workers[t].st \in Exited => (workers[t].st = "stopped" /\ stop /\ work = <<>>)
    /\ OkAfterAll

\* C24 (amended): as above, but a worker also leaves its loop when
\* record_existing_file returns an error or panics on the tuple it popped,
\* whatever the queue and the stop flag; a worker that broke out of its loop
\* saw the queue empty with the stop flag set.
C24_ExitOnStopOrFailure ==
    /\ OneThreadEach
    /\ \A t \in DOMAIN workers :
          /\ workers[t].st = "stopped" => (stop /\ work = <<>>)
          /\ workers[t].st \in {"failed", "panicked"}
                => (workers[t].err # "ok"
                    /\ \E k \in 1..Len(hist.proc) : hist.proc[k].by = t)
    /\ OkAfterAll

\* record returned Ok after the main thread and two workers each processed a
\* tuple.
C24_Witness ==
    /\ ret = "Ok"
    /\ Len(workers) = 2
    /\ Len(hist.proc) = 3
    /\ {hist.proc[k].by : k \in 1..Len(hist.proc)} = {0, 1, 2}

(***************************************************************************)
(* Properties of the session, continued (specification Spec).              *)
(***************************************************************************)
\* The FileAdd hunks of the session for the path p.
FileAddsOf(p) == SelectSeq(AllHunks, LAMBDA h : h.t = "FileAdd" /\ h.path = p)

\* C25: in one session every inode is recorded at most once: no path gets a
\* second FileAdd hunk, and no inode gets a second existing-file tuple,
\* neither in one call nor after a call that has cached it.
C25_RecordedOnce ==
    /\ \A p \in AllPaths : Len(FileAddsOf(p)) <= 1
    /\ \A i, j \in 1..Len(hist.enq) :
          i # j => hist.enq[i].item.inode # hist.enq[j].item.inode
    /\ \A k \in 1..Len(hist.enq) :
          /\ hist.enq[k].item.inode \notin hist.cache0
          /\ hist.enq[k].item.inode \in DOMAIN recorded_inodes

\* Some FOLDER|PARENT edge into the inode vertex of the tuple carries DELETED.
HasDeletedParent(w) ==
    \E k \in DOMAIN iter_adjacent(inode_vertex(w.vertex), {FOLDER, PARENT}, AllFlags) :
       {PARENT, DELETED}
          \subseteq iter_adjacent(inode_vertex(w.vertex), {FOLDER, PARENT}, AllFlags)[k].flag

\* The tuple has one former parent, with the name, metadata and parent the
\* walker found.
SameNameAndParent(w) ==
    /\ Len(NamesOf(w).former_parents) = 1
    /\ NamesOf(w).former_parents[1].basename = w.item.basename
    /\ NamesOf(w).former_parents[1].metadata = w.item.metadata
    /\ NamesOf(w).former_parents[1].parent = w.item.v_papa

\* C26: for every processed tuple, is_deleted is true exactly when some
\* FOLDER|PARENT edge into the inode vertex carries DELETED; a file with no
\* such edge and with its name, metadata and parent unchanged does not go
\* through record_moved_file.
C26_IsDeletedIffDeletedParent ==
    \A i \in 1..Len(hist.proc) :
       NamesOf(hist.proc[i].task).err = "ok" =>
          /\ NamesOf(hist.proc[i].task).is_deleted <=> HasDeletedParent(hist.proc[i].task)
          /\ (~HasDeletedParent(hist.proc[i].task) /\ SameNameAndParent(hist.proc[i].task))
                => i \notin MovedTasks

\* C27: the assertion of record_existing_file holds: every tuple the walker
\* enqueued for an inode with a live graph vertex has at least one former
\* parent when it is processed.
C27_FormerParentFound ==
    \A i \in 1..Len(hist.proc) :
       /\ get_inodes(hist.proc[i].task.item.inode) # NoPos
       /\ NamesOf(hist.proc[i].task).err = "ok"
             => NamesOf(hist.proc[i].task).former_parents # <<>>

\* C28: no deletion walk hands a content vertex to delete_file_edge while the
\* last hunk of the record is not a FileDel: the unreachable!() of
\* delete_file_edge is never reached, by the main thread or by a worker.
C28_LastHunkIsFileDel ==
    /\ ret # "unreachable"
    /\ \A t \in DOMAIN workers : workers[t].err # "unreachable"

\* A deletion walk has handed a content vertex to delete_file_edge, which put
\* its edges in the FileDel, and record returned Ok.
C28_Witness ==
    /\ ret = "Ok"
    /\ \E k \in 1..Len(AllHunks) :
          /\ AllHunks[k].t = "FileDel"
          /\ AllHunks[k].contents # NoAtom
          /\ AllHunks[k].contents.edges # <<>>

\* The grandparent edge of the triple is neither DELETED nor PSEUDO: the loop
\* of collect_moved_edges takes it for a live name of the file.
LiveTriple(t) == DELETED \notin t.gp.flag /\ PSEUDO \notin t.gp.flag

\* edges holds the transition to DELETED of the grandparent edge of the triple.
DeletedIn(t, edges) ==
    \E k \in 1..Len(edges) :
       /\ edges[k].from = t.gp.dest
       /\ edges[k].to = find_block_end(t.parent.dest)
       /\ edges[k].flag = {FOLDER, BLOCK, DELETED}
       /\ edges[k].introduced_by = t.gp.intro

FlagsInGraph(e) ==
    {g.flag \ {PARENT} : g \in {x \in world.graph :
        /\ PARENT \in x.flag
        /\ x.v = e.to
        /\ x.dest = e.from
        /\ x.intro = e.introduced_by}}

\* C30: every NewEdge of every record has for previous the flags that the
\* edge from -> to has in the graph, PARENT removed; previous never holds
\* PARENT.
C30_PreviousIsCurrentFlag ==
    \A e \in AllNewEdges(rec) :
       /\ PARENT \notin e.previous
       /\ e.previous \in FlagsInGraph(e)

(***************************************************************************)
(* Properties of add_file (specification Spec).                            *)
(***************************************************************************)
\* The records that add_file wrote to: those that hold a FileAdd.
AddRecords == {i \in 1..Len(rec) : \E k \in 1..Len(rec[i].actions) :
                                      rec[i].actions[k].t = "FileAdd"}

\* The Add updates of a record.
AddUpdates(r) == {r.updatables[k] : k \in {j \in DOMAIN r.updatables :
                                             r.updatables[j].t = "Add"}}

\* The inode whose tree path is p.
InodeOfPath(p) == CHOOSE i \in Inodes : TreePathOf(i) = p

\* The FileAdd h, written for the inode i at the allocated position p, has
\* the layout of add_file.
FileAddLayout(h, i, p) ==
    LET w == world.wc[h.path]
        isfile == ~w.meta.dir
    IN
    /\ h.add_name.t = "NewVertex"
    /\ h.add_name.flag = {FOLDER, BLOCK}
    /\ h.add_name.up_context = <<recorded_inodes[TreeParent(i)]>>
    /\ h.add_name.down_context = <<>>
    /\ h.add_name.end <= Len(contents)
    /\ SubSeq(contents, h.add_name.start + 1, h.add_name.end)
          = FileMetadataWrite(FileMeta(w.meta, TreeName(i), h.encoding))
    /\ h.add_inode.t = "NewVertex"
    /\ h.add_inode.flag = {FOLDER, BLOCK}
    /\ h.add_inode.start = p /\ h.add_inode.end = p
    /\ h.add_inode.up_context = <<Pos(NoChange, h.add_name.end)>>
    /\ h.add_inode.down_context = <<>>
    /\ h.contents # NoAtom <=> (isfile /\ w.content # <<>>)
    /\ h.contents # NoAtom =>
          /\ h.contents.t = "NewVertex"
          /\ h.contents.flag = {BLOCK}
          /\ h.contents.start < h.contents.end
          /\ h.contents.up_context = <<Pos(NoChange, p)>>
          /\ h.contents.down_context = <<>>
          /\ SubSeq(contents, h.contents.start + 1, h.contents.end) = w.content
    /\ IF isfile
       THEN ~(i \in DOMAIN recorded_inodes /\ recorded_inodes[i] = Pos(NoChange, p))
       ELSE i \in DOMAIN recorded_inodes /\ recorded_inodes[i] = Pos(NoChange, p)

\* C31: a record add_file wrote to holds exactly one hunk, a FileAdd: its
\* add_name covers the serialized FileMetadata (FOLDER|BLOCK, below the
\* position of the parent inode), its add_inode is a zero-length vertex at
\* the allocated position p below the name, its contents vertex is there
\* exactly for a regular file with bytes (BLOCK, covering those bytes), and
\* the walker got Some(p), which it caches, exactly for a directory.
C31_FileAddLayout ==
    \A r \in AddRecords :
       /\ Len(rec[r].actions) = 1
       /\ Cardinality(AddUpdates(rec[r])) = 1
       /\ \A u \in AddUpdates(rec[r]) :
             /\ u.inode = InodeOfPath(rec[r].actions[1].path)
             /\ FileAddLayout(rec[r].actions[1], u.inode, u.pos)

\* A session that added a directory and a regular file with bytes under it.
C31_Witness ==
    /\ ret = "Ok"
    /\ \E r \in AddRecords : world.wc[rec[r].actions[1].path].meta.dir
    /\ \E r \in AddRecords :
          /\ rec[r].actions[1].contents # NoAtom
          /\ Len(rec[r].actions[1].path) = 2

(***************************************************************************)
(* The recursive deleter and the files that are still there.               *)
(***************************************************************************)
\* The graph position is the inode vertex of a tracked inode whose path is in
\* the working copy.
Living(p) ==
    /\ get_revinodes(p) # NoInode
    /\ inode_filename(get_revinodes(p)).ok
    /\ file_metadata(inode_filename(get_revinodes(p)).path).ok

\* The vertices a walk may reach from the set S: those below S by alive
\* forward edges, not going to, or through, a vertex that is still there.
RECURSIVE WalkClosure(_)
WalkClosure(S) ==
    LET more == {find_block(e.dest) :
                    e \in {f \in world.graph :
                              /\ f.v \in S
                              /\ PARENT \notin f.flag /\ DELETED \notin f.flag
                              /\ ~Living(start_pos(find_block(f.dest)))}}
    IN IF more \subseteq S THEN S ELSE WalkClosure(S \cup more)

MayKill(root) == IF Living(root) THEN {} ELSE WalkClosure({inode_vertex(root)})

\* The FileDel hunks of one record, and the vertices a FileDel hunk kills.
FileDelsIn(r) == SelectSeq(rec[r].actions, LAMBDA h : h.t = "FileDel")

KilledBy(h) ==
    {inode_vertex(h.del.inode)}
    \cup (IF h.contents = NoAtom THEN {} ELSE {e.to : e \in Range(h.contents.edges)})

\* C32: the recursive deleter emits no FileDel for a vertex whose tree path
\* is still in the working copy, and it kills nothing that it could only
\* reach through such a vertex: every vertex killed by a walk is below the
\* root of the walk by a chain of alive edges that avoids the files that are
\* still there.
C32_LivingNotDeleted ==
    \A r \in 1..Len(rec) :
        /\ \A k \in DOMAIN rec[r].actions :
              rec[r].actions[k].t = "FileDel" => ~Living(rec[r].actions[k].del.inode)
        /\ FileDelsIn(r) # <<>> =>
              \A k \in DOMAIN FileDelsIn(r) :
                  KilledBy(FileDelsIn(r)[k]) \subseteq MayKill(FileDelsIn(r)[1].del.inode)

\* The directory "a" is gone and deleted, the file "x" recorded below it has
\* been moved out and is still there: the walk met it and left it alone.
C32_Witness ==
    /\ \E r \in 1..Len(rec) : \E k \in DOMAIN rec[r].actions :
          /\ rec[r].actions[k].t = "FileDel"
          /\ rec[r].actions[k].del.inode = start_pos(Iv(1))
    /\ Edge(Iv(1), {FOLDER, BLOCK}, start_pos(Nm(3)), 3) \in world.graph
    /\ Edge(Nm(3), {FOLDER, BLOCK}, start_pos(Iv(3)), 3) \in world.graph
    /\ Living(start_pos(Iv(3)))
    /\ ret = "Ok"
\* The edges of an atom of a hunk, none for no atom.
EdgesOfAtom(a) == IF a = NoAtom THEN <<>> ELSE a.edges

NoDuplicate(es) == \A j, k \in DOMAIN es : es[j] = es[k] => j = k

\* C33: record_deleted_file terminates, also on a graph whose content has a
\* cycle, and pushes a destination position at most once per walk: every
\* walk ends, no FileDel hunk deletes the same content edge twice and no
\* record holds two FileDel hunks of one inode vertex (a vertex pushed twice
\* would be killed twice).
C33_WalkTerminatesOnCycles ==
    \A r \in 1..Len(rec) : \A k \in DOMAIN rec[r].actions :
        rec[r].actions[k].t = "FileDel" =>
            /\ NoDuplicate(EdgesOfAtom(rec[r].actions[k].contents))
            /\ \A j \in DOMAIN rec[r].actions :
                  (/\ rec[r].actions[j].t = "FileDel"
                   /\ rec[r].actions[j].del.inode = rec[r].actions[k].del.inode)
                  => j = k

\* The file "b", whose two lines are in a cycle, has been deleted: the hunk
\* deletes the three content edges, the one closing the cycle included.
C33_Witness ==
    /\ ret = "Ok"
    /\ \E r \in 1..Len(rec) : \E k \in DOMAIN rec[r].actions :
          /\ rec[r].actions[k].t = "FileDel"
          /\ rec[r].actions[k].del.inode = start_pos(Iv(2))
          /\ Len(EdgesOfAtom(rec[r].actions[k].contents)) = 3
          /\ \E j \in DOMAIN EdgesOfAtom(rec[r].actions[k].contents) :
                /\ rec[r].actions[k].contents.edges[j].from = end_pos(Cv(2, 2))
                /\ rec[r].actions[k].contents.edges[j].to = Cv(2, 1)
(***************************************************************************)
(* Recorded::diff on its own (diff/mod.rs, lines 123-191): the file "b" of *)
(* the repository against a buffer drawn from a bounded set, the hunks     *)
(* taken one step at a time.                                               *)
(***************************************************************************)
\* What diff::diff may return for na old lines and nb new lines: at most two
\* hunks, in order, that do not overlap.
HunksOf(na, nb) ==
    {h \in [old : 0..na, old_len : 0..na, new : 0..nb, new_len : 0..nb] :
        /\ h.old + h.old_len <= na /\ h.new + h.new_len <= nb
        /\ h.old_len + h.new_len > 0}

HunkLists(na, nb) ==
    {<<>>} \cup {<<h>> : h \in HunksOf(na, nb)}
    \cup {p \in {<<h, g>> : h \in HunksOf(na, nb), g \in HunksOf(na, nb)} :
              /\ p[1].old + p[1].old_len <= p[2].old
              /\ p[1].new + p[1].new_len <= p[2].new}

DiffOff ==
    [phase |-> "input", d |-> LineOff.d, b |-> <<>>, old |-> <<>>, new |-> <<>>,
     dd |-> <<>>, fail |-> {}, r |-> 0, at |-> "delete", log |-> <<>>, res |-> "none"]

InitDiff ==
    /\ world = MakeWorld([gA |-> "live", wA |-> TRUE, gB |-> "live", wB |-> "edit",
                          nB |-> "b", pB |-> 0, mB |-> 3, gX |-> "live", wX |-> TRUE,
                          bad |-> FALSE, undec |-> FALSE, psB |-> FALSE,
                          mvX |-> FALSE, mvO |-> FALSE, cyc |-> FALSE, noMt |-> FALSE,
                          eX |-> FALSE,
                          n2 |-> "none", d2 |-> "live"])
    /\ opts = [force_rediff |-> FALSE, ignore_missing |-> FALSE]
    /\ rec = <<recorded_>>
    /\ recorded_inodes = EmptyMap
    /\ deleted_vertices = {}
    /\ contents = <<>>
    /\ stack = <<>>
    /\ work = <<>>
    /\ stop = FALSE
    /\ pc = "diff"
    /\ ret = "none"
    /\ result = NoResult
    /\ hist = Hist0
    /\ workers = <<>>
    /\ \E b \in Bufs : lineSt = [DiffOff EXCEPT !.b = b]

\* Lines 137-162: the largest file, the old buffer, the two line arrays and
\* the hunks of diff::diff; fail holds the hunks whose deletion the change
\* store will not read.
DiffStart ==
    /\ pc = "diff" /\ lineSt.phase = "input"
    /\ LET d == output_graph(start_pos(Iv(2)))
           lines_a == make_old_lines(d)
           lines_b == make_new_lines(lineSt.b)
       IN \E dd \in HunkLists(Len(lines_a), Len(lines_b)) :
          \E fail \in SUBSET {k \in DOMAIN dd : dd[k].old_len > 0} :
             lineSt' = [lineSt EXCEPT !.phase = "hunks", !.d = d, !.old = lines_a,
                                      !.new = lines_b, !.dd = dd, !.fail = fail,
                                      !.r = 1]
    /\ rec' = [rec EXCEPT ![1].largest_file = Max2(@, Len(lineSt.b))]
    /\ UNCHANGED <<world, opts, recorded_inodes, deleted_vertices, contents, stack,
                   work, stop, pc, ret, result, hist, workers>>

\* Lines 164-176: the delete translation of hunk r, when it has old lines;
\* with `?` an error ends diff.
DiffDeleteStep(question_mark) ==
    /\ pc = "diff" /\ lineSt.phase = "hunks" /\ lineSt.at = "delete"
    /\ lineSt.r <= Len(lineSt.dd)
    /\ LET h == lineSt.dd[lineSt.r] IN
       IF h.old_len = 0
       THEN /\ lineSt' = [lineSt EXCEPT !.at = "replace"]
            /\ UNCHANGED <<rec, recorded_inodes, deleted_vertices, contents>>
       ELSE IF lineSt.r \in lineSt.fail
       THEN /\ lineSt' =
                 [lineSt EXCEPT
                     !.log = Append(@, [op |-> "delete", r |-> lineSt.r, ok |-> FALSE]),
                     !.at = IF question_mark THEN @ ELSE "replace",
                     !.phase = IF question_mark THEN "returned" ELSE @,
                     !.res = IF question_mark THEN "Changestore" ELSE @]
            /\ UNCHANGED <<rec, recorded_inodes, deleted_vertices, contents>>
       ELSE /\ lineSt' =
                 [lineSt EXCEPT
                     !.log = Append(@, [op |-> "delete", r |-> lineSt.r, ok |-> TRUE]),
                     !.at = "replace"]
            /\ SetBuilder(diff_delete(Builder, 1, lineSt.d, h, lineSt.old,
                                      start_pos(Iv(2)), <<"b">>, "utf8"))
    /\ UNCHANGED <<world, opts, stack, work, stop, pc, ret, result, hist, workers>>

\* A loop that goes on after a failed deletion.
DiffDelete_without_question_mark == DiffDeleteStep(FALSE)

DiffDelete == DiffDeleteStep(TRUE)

\* Lines 177-187: the replace translation of hunk r, when it has new lines,
\* and on to the next hunk.
DiffReplace ==
    /\ pc = "diff" /\ lineSt.phase = "hunks" /\ lineSt.at = "replace"
    /\ LET h == lineSt.dd[lineSt.r] IN
       IF h.new_len = 0
       THEN /\ lineSt' = [lineSt EXCEPT !.at = "delete", !.r = @ + 1]
            /\ UNCHANGED <<rec, recorded_inodes, deleted_vertices, contents>>
       ELSE /\ lineSt' =
                 [lineSt EXCEPT
                     !.log = Append(@, [op |-> "replace", r |-> lineSt.r, ok |-> TRUE]),
                     !.at = "delete", !.r = @ + 1]
            /\ SetBuilder(diff_replace(Builder, 1, lineSt.d, h, lineSt.old, lineSt.new,
                                       start_pos(Iv(2)), <<"b">>, "utf8"))
    /\ UNCHANGED <<world, opts, stack, work, stop, pc, ret, result, hist, workers>>

\* Lines 189-190: the loop is over, Ok(()).
DiffReturn ==
    /\ pc = "diff" /\ lineSt.phase = "hunks" /\ lineSt.at = "delete"
    /\ lineSt.r > Len(lineSt.dd)
    /\ lineSt' = [lineSt EXCEPT !.phase = "returned", !.res = "Ok"]
    /\ UNCHANGED builderVars

NextDiff == DiffStart \/ DiffDelete \/ DiffReplace \/ DiffReturn

SpecDiff == InitDiff /\ [][NextDiff]_vars

\* The translations of hunk k that have run, in the order they ran.
Ran(op, k) == \E i \in DOMAIN lineSt.log : lineSt.log[i].op = op /\ lineSt.log[i].r = k

\* C34: within one diff the hunks are processed in diff order and, for each
\* hunk, the delete translation (run exactly when old_len > 0) is over
\* before the replace translation (run exactly when new_len > 0) starts; a
\* failed delete translation is the last thing diff does: it returns that
\* error, with no replace for that hunk and no later hunk processed.
C34_HunkOrder ==
    lineSt.phase \in {"hunks", "returned"} =>
        /\ \A i, j \in DOMAIN lineSt.log :
              i < j => \/ lineSt.log[i].r < lineSt.log[j].r
                       \/ /\ lineSt.log[i].r = lineSt.log[j].r
                          /\ lineSt.log[i].op = "delete"
                          /\ lineSt.log[j].op = "replace"
        /\ \A i \in DOMAIN lineSt.log :
              /\ lineSt.log[i].op = "delete" => lineSt.dd[lineSt.log[i].r].old_len > 0
              /\ lineSt.log[i].op = "replace" => lineSt.dd[lineSt.log[i].r].new_len > 0
              /\ ~lineSt.log[i].ok =>
                    /\ i = Len(lineSt.log)
                    /\ lineSt.phase = "returned" /\ lineSt.res = "Changestore"
        /\ \A k \in DOMAIN lineSt.dd :
              (k < lineSt.r \/ lineSt.res = "Ok") =>
                  /\ lineSt.dd[k].old_len > 0 => Ran("delete", k)
                  /\ lineSt.dd[k].new_len > 0 => Ran("replace", k)
        /\ lineSt.res = "Ok" => \A i \in DOMAIN lineSt.log : lineSt.log[i].ok
        /\ lineSt.res \notin {"none", "Ok"} =>
              lineSt.log # <<>> /\ ~Last(lineSt.log).ok

\* Two hunks: the first was deleted and replaced, the deletion of the second
\* failed, and diff returned the error without the replacement of the second.
C34_Witness ==
    /\ lineSt.phase = "returned" /\ lineSt.res = "Changestore"
    /\ Len(lineSt.dd) = 2
    /\ lineSt.dd[2].new_len > 0
    /\ Len(lineSt.log) = 3
    /\ lineSt.log[1] = [op |-> "delete", r |-> 1, ok |-> TRUE]
    /\ lineSt.log[2] = [op |-> "replace", r |-> 1, ok |-> TRUE]
    /\ lineSt.log[3] = [op |-> "delete", r |-> 2, ok |-> FALSE]
    /\ Len(rec[1].actions) = 1 /\ rec[1].actions[1].t = "Replace"
(***************************************************************************)
(* bytes_len (diff/mod.rs, lines 205-214).                                 *)
(***************************************************************************)
\* The line array bytes_len was applied to.
SpanChunks == IF lineSt.span.of = "old" THEN lineSt.old ELSE lineSt.new

\* The offset of line k (from 0) in its buffer, and the end of the buffer.
OffsetOf(chunks, k) == chunks[k + 1].ptr[2]

EndOf(chunks) == IF chunks = <<>> THEN 0 ELSE Last(chunks).ptr[2] + Len(Last(chunks).l)

\* The byte span of lines i..i+n.
ByteSpan(chunks, i, n) ==
    (IF i + n < Len(chunks) THEN OffsetOf(chunks, i + n) ELSE EndOf(chunks))
    - (IF i < Len(chunks) THEN OffsetOf(chunks, i) ELSE EndOf(chunks))

\* C35: for all i, n with i + n <= chunks.len(), bytes_len(chunks, i, n)
\* returns the byte span of lines i..i+n without indexing outside the line
\* array; this is 0 when n = 0 and i = chunks.len().
C35_BytesLen ==
    lineSt.phase = "span" =>
        /\ lineSt.span.out.ok
        /\ lineSt.span.out.v = ByteSpan(SpanChunks, lineSt.span.i, lineSt.span.n)

\* bytes_len returns the byte span whenever line i exists.
BytesLenInside ==
    (lineSt.phase = "span" /\ lineSt.span.i < Len(SpanChunks)) =>
        /\ lineSt.span.out.ok
        /\ lineSt.span.out.v = ByteSpan(SpanChunks, lineSt.span.i, lineSt.span.n)

\* bytes_len panics exactly when i = chunks.len().
BytesLenPanics ==
    lineSt.phase = "span" =>
        (~lineSt.span.out.ok <=> lineSt.span.i = Len(SpanChunks))
(***************************************************************************)
(* The cyclic bit of the lines (diff/mod.rs, lines 73-121).                *)
(***************************************************************************)
\* The offset x lies inside some range of the vector.
InSomeRange(ranges, x) ==
    \E k \in DOMAIN ranges : ranges[k][1] <= x /\ x < ranges[k][2]

\* No two ranges of the vector share a byte.
Disjoint(ranges) ==
    \A j, k \in DOMAIN ranges : j < k => ranges[j][2] <= ranges[k][1]

LinesMade == lineSt.phase \in {"lines", "span"}

\* C36: make_old_lines sets cyclic on an old line exactly when the start
\* offset of the line lies inside some [start, end) range of the sorted
\* cyclic_conflict_bytes vector, and the lines of the new buffer are never
\* cyclic.
C36_CyclicBit ==
    LinesMade =>
        /\ \A k \in DOMAIN lineSt.old :
              lineSt.old[k].cyclic
                 <=> InSomeRange(lineSt.d.cyclic_conflict_bytes, lineSt.old[k].ptr[2])
        /\ \A k \in DOMAIN lineSt.new : ~lineSt.new[k].cyclic

\* When no two ranges share a byte, the one range make_old_lines looks at is
\* the only one that can hold the offset.
CyclicBitWhenDisjoint ==
    (LinesMade /\ Disjoint(lineSt.d.cyclic_conflict_bytes)) =>
        \A k \in DOMAIN lineSt.old :
            lineSt.old[k].cyclic
               <=> InSomeRange(lineSt.d.cyclic_conflict_bytes, lineSt.old[k].ptr[2])

\* The lines of the new buffer are never cyclic.
NewLinesNotCyclic == LinesMade => \A k \in DOMAIN lineSt.new : ~lineSt.new[k].cyclic
(***************************************************************************)
(* The parent position of the work tuples.                                 *)
(***************************************************************************)
\* C37: every work tuple the walker enqueues carries new_papa = Some(p), p
\* being the cached position of the parent inode of the item and equal to
\* item.v_papa; no processed tuple makes record_existing_file unwrap None.
C37_NewPapaIsSome ==
    /\ \A k \in DOMAIN hist.enq :
          /\ hist.enq[k].new_papa # NoPos
          /\ hist.enq[k].new_papa = hist.enq[k].item.v_papa
          /\ hist.enq[k].item.papa \in DOMAIN recorded_inodes
          /\ recorded_inodes[hist.enq[k].item.papa] = hist.enq[k].new_papa
    /\ \A i \in DOMAIN hist.proc : hist.proc[i].task.new_papa # NoPos

\* A tuple was processed whose file has moved: record_moved_file took the
\* position of the new parent from new_papa; and the walk went below a
\* directory, so that a tuple has a parent other than the root.
C37_Witness ==
    /\ MovedTasks # {}
    /\ \E k \in DOMAIN hist.enq : hist.enq[k].item.papa # InodeROOT
    /\ hist.calls = 2
(***************************************************************************)
(* The reach of a record with a prefix.                                    *)
(***************************************************************************)
\* The path p is q, an ancestor of q, or underneath q.
OnTheWay(p, q) ==
    \/ Len(p) <= Len(q) /\ SubSeq(q, 1, Len(p)) = p
    \/ Len(q) <= Len(p) /\ SubSeq(p, 1, Len(q)) = q

\* The hunks of the records the current call of record has pushed.
HunksOfCall == Concat([i \in 1..Len(rec) - hist.rec0 |-> rec[hist.rec0 + i].actions])

\* C38: a record with a non-empty prefix emits hunks only for the prefix
\* path, its ancestors and the paths underneath it, and the session caches
\* get no entry for a tracked path outside the prefix.
C38_PrefixFrame ==
    (hist.calls > 0 /\ hist.prefix # <<>>) =>
        /\ \A k \in DOMAIN HunksOfCall : OnTheWay(HunksOfCall[k].path, hist.prefix)
        /\ \A i \in (DOMAIN recorded_inodes \ hist.cache0) \ {InodeROOT} :
              inode_filename(i).ok /\ OnTheWay(inode_filename(i).path, hist.prefix)
        /\ hist.calls = 1 =>
              \A v \in deleted_vertices :
                  /\ get_revinodes(v) # NoInode
                  /\ OnTheWay(inode_filename(get_revinodes(v)).path, hist.prefix)

\* The record of the prefix "a" has returned Ok and has emitted a FileDel of
\* the file "b", which is not under "a".
PrefixLeak ==
    /\ hist.calls = 1 /\ hist.prefix = <<"a">> /\ pc = "idle" /\ ret = "Ok"
    /\ \E k \in DOMAIN HunksOfCall :
          HunksOfCall[k].t = "FileDel" /\ HunksOfCall[k].path = <<"b">>
    /\ 2 \in DOMAIN recorded_inodes
(***************************************************************************)
(* The new name of a moved file.                                           *)
(***************************************************************************)
\* The folder-level hunks record_moved_file left in the record of task i.
MoveHunksOf(i) ==
    SelectSeq(rec[hist.proc[i].task.rec].actions,
              LAMBDA h : h.t \in {"FileUndel", "FileMove", "SolveNameConflict"})

RECURSIVE ContentClosure(_)
ContentClosure(S) ==
    LET more == {find_block(e.dest) :
                    e \in {f \in world.graph :
                              f.v \in S /\ PARENT \notin f.flag /\ FOLDER \notin f.flag}}
    IN IF more \subseteq S THEN S ELSE ContentClosure(S \cup more)

\* The content vertices of the file whose inode vertex is at the position p.
OwnedBy(p) == ContentClosure({inode_vertex(p)}) \ {inode_vertex(p)}

\* C40: every content-edge deletion of a recursive deletion is in the
\* contents EdgeMap of the FileDel hunk of the file that owns the content
\* vertex (the hunk whose del EdgeMap has the inode vertex of that file as
\* inode), never in the hunk of another file or of a directory.
C40_ContentsInOwnHunk ==
    \A r \in 1..Len(rec) : \A k \in DOMAIN rec[r].actions :
        (rec[r].actions[k].t = "FileDel" /\ rec[r].actions[k].contents # NoAtom) =>
            /\ rec[r].actions[k].contents.inode = rec[r].actions[k].del.inode
            /\ \A e \in Range(rec[r].actions[k].contents.edges) :
                  /\ e.to \in OwnedBy(rec[r].actions[k].del.inode)
                  /\ DELETED \in e.flag /\ FOLDER \notin e.flag

\* One recursive deletion has killed the directory "a" and then the file "x"
\* under it: the record holds the FileDel of the directory, without
\* contents, and after it the FileDel of the file with its content edge.
C40_Witness ==
    \E r \in 1..Len(rec) :
        /\ Len(rec[r].actions) = 2
        /\ rec[r].actions[1].t = "FileDel"
        /\ rec[r].actions[1].del.inode = start_pos(Iv(1))
        /\ rec[r].actions[1].contents = NoAtom
        /\ rec[r].actions[2].t = "FileDel"
        /\ rec[r].actions[2].del.inode = start_pos(Iv(3))
        /\ rec[r].actions[2].contents # NoAtom
        /\ \E e \in Range(rec[r].actions[2].contents.edges) : e.to = Cv(3, 1)
====
